---- MODULE Spec2Model ----
(***************************************************************************)
(* A model of the JavaScript -> VTL transpiler: the VTL AST with its       *)
(* toString/serialize contract, the symbol table that flattens lexical     *)
(* scopes into VTL's single namespace, and the walkers of the transform    *)
(* engine, including the lowering of switch statements to #if directives.  *)
(***************************************************************************)
EXTENDS Integers, Sequences, FiniteSets, TLC

(***************************************************************************)
(* Bounds of the model.                                                    *)
(***************************************************************************)
MaxStmts == 3      \* statements visited in one transpilation (Spec)
MaxDecls == 4      \* declarations and blocks visited in one transpilation (ScopeSpec)
MaxDepth == 3      \* scope frames open at once (Program frame included)
MaxCases == 3      \* cases of a switch statement in SwitchSpec
MaxChain == 3      \* property accesses and method calls of a chain (ExprSpec)
MaxOperands == 3   \* operands of an expression of binary operators (ExprSpec)
MaxElements == 3   \* elements of an array literal (RejectSpec)
MaxProperties == 2 \* properties of an object literal (RejectSpec)
MaxIfs == 3        \* conditionals of an if / else-if chain (IfSpec)
MaxUnits == 3      \* operands, elements, arguments or statements in a row (RejectSpec)

(***************************************************************************)
(* Values shared by the source AST and the VTL AST.                        *)
(***************************************************************************)
Null == [type |-> "Null"]
NoError == ""
kDiscardName == "discard"
EOL == "\n"
indentString == "  "

\* Source identifiers the modelled programs declare and use.
DeclNames == {"a", "a_1", kDiscardName}
AllNames ==
  DeclNames \cup {"matched", "fallthrough", "discriminant", "g"}

(***************************************************************************)
(* Source (ESTree) nodes, as the parser hands them to the walkers.  A      *)
(* location is a 1-based line and a 0-based column.                        *)
(***************************************************************************)
Loc(line, column) == [line |-> line, column |-> column]

Identifier(name, loc) == [type |-> "Identifier", name |-> name, loc |-> loc]
NumLiteral(n, loc) == [type |-> "Literal", kind |-> "number", num |-> n, loc |-> loc]
BoolLiteral(b, loc) == [type |-> "Literal", kind |-> "boolean", bool |-> b, loc |-> loc]
BinaryExpression(op, left, right, loc) ==
  [type |-> "BinaryExpression", operator |-> op, left |-> left, right |-> right, loc |-> loc]
AssignmentExpression(op, left, right, loc) ==
  [type |-> "AssignmentExpression", operator |-> op, left |-> left, right |-> right, loc |-> loc]
UnaryExpression(op, argument, loc) ==
  [type |-> "UnaryExpression", operator |-> op, argument |-> argument, prefix |-> TRUE, loc |-> loc]
MemberExpression(object, property, loc) ==
  [type |-> "MemberExpression", object |-> object, property |-> property, loc |-> loc]
CallExpression(callee, arguments, loc) ==
  [type |-> "CallExpression", callee |-> callee, arguments |-> arguments, loc |-> loc]
ArrayExpression(elements, loc) ==
  [type |-> "ArrayExpression", elements |-> elements, loc |-> loc]
ObjectExpression(properties, loc) ==
  [type |-> "ObjectExpression", properties |-> properties, loc |-> loc]
Property(key, value, computed, method, kind, loc) ==
  [type |-> "Property", key |-> key, value |-> value, computed |-> computed,
   method |-> method, kind |-> kind, loc |-> loc]
ExpressionStatementJs(expression, loc) ==
  [type |-> "ExpressionStatement", expression |-> expression, loc |-> loc]
VariableDeclarator(id, init, loc) ==
  [type |-> "VariableDeclarator", id |-> id, init |-> init, loc |-> loc]
VariableDeclarationJs(declarations, loc) ==
  [type |-> "VariableDeclaration", declarations |-> declarations, loc |-> loc]
BreakStatement(loc) == [type |-> "BreakStatement", loc |-> loc]
SwitchCase(test, consequent, loc) ==
  [type |-> "SwitchCase", test |-> test, consequent |-> consequent, loc |-> loc]
SwitchStatementJs(discriminant, cases, loc) ==
  [type |-> "SwitchStatement", discriminant |-> discriminant, cases |-> cases, loc |-> loc]
BlockStatementJs(body, loc) == [type |-> "BlockStatement", body |-> body, loc |-> loc]
ForOfStatementJs(left, right, body, loc) ==
  [type |-> "ForOfStatement", left |-> left, right |-> right, body |-> body,
   loc |-> loc]
\* A node of a type the walkers reject: nothing but its location is read.
RejectedNode(type, loc) == [type |-> type, loc |-> loc]
IfStatementJs(test, consequent, alternate, loc) ==
  [type |-> "IfStatement", test |-> test, consequent |-> consequent,
   alternate |-> alternate, loc |-> loc]

(***************************************************************************)
(* VTL AST nodes.                                                          *)
(***************************************************************************)
\* operatorPrecedence with the two levels exchanged.
operatorPrecedenceExchanged(operator) ==
  CASE operator = "+" -> 2
    [] operator = "-" -> 2
    [] operator = "*" -> 1
    [] operator = "/" -> 1
    [] OTHER -> 0

operatorPrecedence(operator) ==
  CASE operator = "+" -> 1
    [] operator = "-" -> 1
    [] operator = "*" -> 2
    [] operator = "/" -> 2
    [] OTHER -> 0          \* Map.get() of an absent key: undefined, falsy

IdentifierNode(name) == [type |-> "IdentifierNode", name |-> name]
LiteralNode(kind, value) ==
  CASE kind = "number" -> [type |-> "LiteralNode", kind |-> kind, num |-> value]
    [] kind = "boolean" -> [type |-> "LiteralNode", kind |-> kind, bool |-> value]
    [] OTHER -> [type |-> "LiteralNode", kind |-> kind, str |-> value]
VariableReferenceNode(identifier, symbol) ==
  [type |-> "VariableReferenceNode", identifier |-> identifier, symbol |-> symbol]
BinaryExpressionNode(operator, left, right) ==
  [type |-> "BinaryExpressionNode", operator |-> operator, left |-> left,
   right |-> right, precedence |-> operatorPrecedence(operator)]
UnaryExpressionNode(operator, argument, prefix) ==
  [type |-> "UnaryExpressionNode", operator |-> operator, argument |-> argument,
   prefix |-> prefix]
MethodReferenceNode(property, parameters) ==
  [type |-> "MethodReferenceNode", property |-> property, parameters |-> parameters]
\* PropertyReferenceNode that clears the root flag of a property receiver only.
PropertyReferenceNodeKeepsMethodRoot(receiver, property) ==
  [type |-> "PropertyReferenceNode",
   receiver |->
     IF receiver.type = "PropertyReferenceNode"
       THEN [receiver EXCEPT !.isReferenceRoot = FALSE]
       ELSE receiver,
   property |-> property,
   isReferenceRoot |-> TRUE]

PropertyReferenceNode(receiver, property) ==
  [type |-> "PropertyReferenceNode",
   receiver |->
     CASE receiver.type = "PropertyReferenceNode" ->
            [receiver EXCEPT !.isReferenceRoot = FALSE]
       [] receiver.type = "MethodReferenceNode" ->
            [receiver EXCEPT !.property.isReferenceRoot = FALSE]
       [] OTHER -> receiver,
   property |-> property,
   isReferenceRoot |-> TRUE]
ArrayListNode(elements) == [type |-> "ArrayListNode", elements |-> elements]
MapNode(map) == [type |-> "MapNode", map |-> map]
SetDirectiveNode(reference, expression) ==
  [type |-> "SetDirectiveNode", reference |-> reference, expression |-> expression]
StatementListNode(statements) ==
  [type |-> "StatementListNode", statements |-> statements]
\* IfDirectiveNode that does not mark an alternate conditional as an else-if.
IfDirectiveNodeUnchained(test, consequent, alternate) ==
  [type |-> "IfDirectiveNode", test |-> test, consequent |-> consequent,
   alternate |-> alternate, isElseIf |-> FALSE]

IfDirectiveNode(test, consequent, alternate) ==
  [type |-> "IfDirectiveNode", test |-> test, consequent |-> consequent,
   alternate |->
     IF alternate.type = "IfDirectiveNode"
       THEN [alternate EXCEPT !.isElseIf = TRUE]
       ELSE alternate,
   isElseIf |-> FALSE]

ForEachDirectiveNode(iterator, iterable, body) ==
  [type |-> "ForEachDirectiveNode", iterator |-> iterator, iterable |-> iterable,
   body |-> body]

BoolText(b) == IF b THEN "true" ELSE "false"

RECURSIVE ToStr(_)
RECURSIVE JoinStr(_, _)
RECURSIVE JoinEntries(_)
JoinStr(nodes, separator) ==
  IF Len(nodes) = 0 THEN ""
  ELSE IF Len(nodes) = 1 THEN ToStr(nodes[1])
  ELSE ToStr(nodes[1]) \o separator \o JoinStr(Tail(nodes), separator)

\* The entries of a map: each key quoted, then its value.
JoinEntries(map) ==
  IF Len(map) = 0 THEN ""
  ELSE "'" \o ToStr(map[1].key) \o "': " \o ToStr(map[1].value)
         \o (IF Len(map) = 1 THEN "" ELSE ", " \o JoinEntries(Tail(map)))

\* toString() of the expression and reference nodes.
ToStr(node) ==
  CASE node.type = "IdentifierNode" -> node.name
    [] node.type = "LiteralNode" ->
         (CASE node.kind = "number" -> ToString(node.num)
            [] node.kind = "boolean" -> BoolText(node.bool)
            [] OTHER -> "'" \o node.str \o "'")
    [] node.type = "VariableReferenceNode" -> "$" \o node.symbol.name
    [] node.type = "BinaryExpressionNode" ->
         LET lhs == ToStr(node.left)
             rhs == ToStr(node.right)
             lp == IF node.left.type = "BinaryExpressionNode"
                     THEN node.left.precedence ELSE 0
             rp == IF node.right.type = "BinaryExpressionNode"
                     THEN node.right.precedence ELSE 0
             l == IF lp # 0 /\ lp < node.precedence THEN "(" \o lhs \o ")" ELSE lhs
             r == IF rp # 0 /\ rp < node.precedence THEN "(" \o rhs \o ")" ELSE rhs
         IN l \o " " \o node.operator \o " " \o r
    [] node.type = "UnaryExpressionNode" ->
         LET separator == IF node.operator = "!" \/ node.operator = "-"
                            THEN "" ELSE " "
         IN node.operator \o separator \o ToStr(node.argument)
    [] node.type = "PropertyReferenceNode" ->
         (IF node.isReferenceRoot THEN "$" ELSE "")
           \o ToStr(node.receiver) \o "." \o ToStr(node.property)
    [] node.type = "MethodReferenceNode" ->
         ToStr(node.property) \o "(" \o JoinStr(node.parameters, ", ") \o ")"
    [] node.type = "ArrayListNode" ->
         "[" \o JoinStr(node.elements, ", ") \o "]"
    [] node.type = "MapNode" -> "{" \o JoinEntries(node.map) \o "}"
    [] node.type = "SetDirectiveNode" ->
         "#set( " \o ToStr(node.reference) \o " = " \o ToStr(node.expression) \o " )"
    \* String(null), and the toString() of a class that defines none
    [] node.type = "Null" -> "null"
    [] node.type = "StatementListNode" -> "[object Object]"
    [] OTHER -> "undefined"

RECURSIVE indentation(_)
\* SerializationContext.indentation(): indentString.repeat(indentLevel).
indentation(indentLevel) ==
  IF indentLevel <= 0 THEN "" ELSE indentString \o indentation(indentLevel - 1)

RECURSIVE Serialize(_, _)
RECURSIVE SerializeAll(_, _)
SerializeAll(nodes, indentLevel) ==
  IF Len(nodes) = 0 THEN ""
  ELSE Serialize(nodes[1], indentLevel) \o SerializeAll(Tail(nodes), indentLevel)

\* serialize(context) of a node, at the context's indent level.
Serialize(node, indentLevel) ==
  CASE node.type = "SetDirectiveNode" ->
         indentation(indentLevel) \o ToStr(node) \o EOL
    [] node.type = "StatementListNode" -> SerializeAll(node.statements, indentLevel)
    [] node.type = "IfDirectiveNode" ->
         LET directive == IF node.isElseIf THEN "elseif" ELSE "if"
             head == "#" \o directive \o "( " \o Serialize(node.test, indentLevel)
                       \o " )" \o EOL
                       \o Serialize(node.consequent, indentLevel + 1)
         IN IF node.alternate # Null
              THEN IF node.alternate.type = "IfDirectiveNode" /\ node.alternate.isElseIf
                     THEN head \o Serialize(node.alternate, indentLevel)
                     ELSE head \o "#else" \o EOL
                            \o Serialize(node.alternate, indentLevel + 1)
                            \o "#end" \o EOL
              ELSE head \o "#end" \o EOL
    [] node.type = "ForEachDirectiveNode" ->
         "#foreach( " \o ToStr(node.iterator) \o " in " \o ToStr(node.iterable)
           \o " )" \o EOL
           \o Serialize(node.body, indentLevel + 1)
           \o "#end"
    [] OTHER -> ToStr(node)

\* A const of the code: v by the name of Op's parameter.
Bind(v, Op(_)) == Op(v)

RECURSIVE serialize(_, _)
RECURSIVE serializeStatements(_, _, _)
\* The loop of StatementListNode.serialize: str is the text so far.
serializeStatements(statements, ctx, str) ==
  IF Len(statements) = 0 THEN [str |-> str, context |-> ctx, thrown |-> FALSE]
  ELSE Bind(serialize(statements[1], ctx), LAMBDA statement :
    IF statement.thrown THEN statement
    ELSE serializeStatements(Tail(statements), statement.context,
                             str \o statement.str))

\* node.serialize(context) as the call that it is: the text returned, the
\* context as the call leaves it, and whether the call threw.  A statement
\* that is null has no serialize to call, which is a TypeError; a statement
\* after the one that threw is not rendered, and neither is any
\* context.dedent() on the way out.
serialize(node, ctx) ==
  CASE node = Null -> [str |-> "", context |-> ctx, thrown |-> TRUE]
    [] node.type = "SetDirectiveNode" ->
         [str |-> indentation(ctx.indentLevel) \o ToStr(node) \o EOL,
          context |-> ctx, thrown |-> FALSE]
    [] node.type = "StatementListNode" ->
         serializeStatements(node.statements, ctx, "")
    [] node.type = "IfDirectiveNode" ->
         Bind(serialize(node.test, ctx), LAMBDA test :
           IF test.thrown THEN test
           ELSE Bind(serialize(node.consequent,
                               [test.context EXCEPT !.indentLevel = @ + 1]),
                     LAMBDA consequent :
             IF consequent.thrown THEN consequent
             ELSE LET str == "#" \o (IF node.isElseIf THEN "elseif" ELSE "if")
                               \o "( " \o test.str \o " )" \o EOL
                               \o consequent.str
                      dedented == [consequent.context EXCEPT !.indentLevel = @ - 1]
                  IN IF node.alternate = Null
                       THEN [str |-> str \o "#end" \o EOL, context |-> dedented,
                             thrown |-> FALSE]
                     ELSE IF node.alternate.type = "IfDirectiveNode"
                               /\ node.alternate.isElseIf
                       THEN Bind(serialize(node.alternate, dedented),
                                 LAMBDA alternate :
                              IF alternate.thrown THEN alternate
                              ELSE [alternate EXCEPT !.str = str \o @])
                     ELSE Bind(serialize(node.alternate,
                                         [dedented EXCEPT !.indentLevel = @ + 1]),
                               LAMBDA alternate :
                            IF alternate.thrown THEN alternate
                            ELSE [str |-> str \o "#else" \o EOL \o alternate.str
                                            \o "#end" \o EOL,
                                  context |-> [alternate.context
                                                 EXCEPT !.indentLevel = @ - 1],
                                  thrown |-> FALSE])))
    [] node.type = "ForEachDirectiveNode" ->
         Bind(serialize(node.body, [ctx EXCEPT !.indentLevel = @ + 1]),
              LAMBDA body :
           IF body.thrown THEN body
           ELSE [str |-> "#foreach( " \o ToStr(node.iterator) \o " in "
                           \o ToStr(node.iterable) \o " )" \o EOL \o body.str
                           \o "#end",
                 context |-> [body.context EXCEPT !.indentLevel = @ - 1],
                 thrown |-> FALSE])
    [] OTHER -> [str |-> ToStr(node), context |-> ctx, thrown |-> FALSE]

(***************************************************************************)
(* The symbol table.  A table is the stack of its frames, the outermost    *)
(* first; a frame maps a source name to the symbol declared for it.  The   *)
(* version counters are shared by every frame of one table.                *)
(***************************************************************************)
EmptyFrame == [n \in {} |-> Null]
NoVersions == [n \in AllNames |-> 0]

\* The target name of the k-th redeclaration of a source name.
TargetName(name, version) ==
  IF version = 0 THEN name ELSE name \o "_" \o ToString(version)

\* SymbolTable.symbol(name): declares name in the current frame.  The walker
\* state st carries the table (scope, versions) and the history of the
\* declarations made so far (decls, with the frame they were made in).
symbol(st, name) ==
  LET sym == [name |-> TargetName(name, st.versions[name])]
      top == Len(st.scope)
  IN [st EXCEPT
        !.scope = [st.scope EXCEPT ![top] = (name :> sym) @@ st.scope[top]],
        !.versions = [st.versions EXCEPT ![name] = @ + 1],
        !.decls = Append(st.decls,
                         [name |-> name, target |-> sym.name,
                          frame |-> st.frameIds[top]])]

\* The symbol symbol() has just declared for name.
declared(st, name) == st.scope[Len(st.scope)][name]

RECURSIVE lookupFrom(_, _, _)
lookupFrom(scope, i, name) ==
  IF i = 0 THEN Null
  ELSE IF name \in DOMAIN scope[i] THEN scope[i][name]
  ELSE lookupFrom(scope, i - 1, name)

\* SymbolTable.lookup(name): the current frame first, then each parent.
lookup(scope, name) == lookupFrom(scope, Len(scope), name)

\* enterScope(state): a new table, or a scope nested in the current one.
enterScope(st) ==
  [st EXCEPT !.scope = Append(st.scope, EmptyFrame),
             !.frameIds = Append(st.frameIds, st.nextFrame),
             !.nextFrame = st.nextFrame + 1]

\* exitScope(state): back to the parent scope.
exitScope(st) ==
  IF Len(st.scope) = 0 THEN st
  ELSE [st EXCEPT !.scope = SubSeq(st.scope, 1, Len(st.scope) - 1),
                  !.frameIds = SubSeq(st.frameIds, 1, Len(st.frameIds) - 1)]

(***************************************************************************)
(* Error reporting.                                                        *)
(***************************************************************************)
\* reportError that reports the 0-based column of the parser as it is.
reportErrorColumnAsParsed(message, loc) ==
  IF loc # Null
    THEN "Line " \o ToString(loc.line) \o ", column "
           \o ToString(loc.column) \o ": " \o message
    ELSE message

\* reportError(message, loc): the message of the Error that is thrown.
reportError(message, loc) ==
  IF loc # Null
    THEN "Line " \o ToString(loc.line) \o ", column "
           \o ToString(loc.column + 1) \o ": " \o message
    ELSE message

Failed(st) == st.error # NoError
Throw(st, message) == [st EXCEPT !.error = message]

\* declVarRef that names the reference after the identifier, not the symbol.
declVarRefUnversioned(node, st) ==
  IF node.type # "IdentifierNode"
    THEN [node |-> node, st |-> st]
    ELSE [node |-> VariableReferenceNode(node, [name |-> node.name]),
          st |-> symbol(st, node.name)]

\* declVarRef(node, state): the reference of a newly declared variable.
declVarRef(node, st) ==
  IF node.type # "IdentifierNode"
    THEN [node |-> node, st |-> st]
    ELSE LET s1 == symbol(st, node.name)
         IN [node |-> VariableReferenceNode(node, declared(s1, node.name)),
             st |-> s1]

\* nonDeclVarRef that resolves the name in the outermost frame alone.
nonDeclVarRefOutermostFrame(node, st, jsNode) ==
  IF node.type # "IdentifierNode"
    THEN [node |-> node, error |-> NoError]
    ELSE LET sym == lookupFrom(st.scope, 1, node.name)
         IN IF sym = Null
              THEN [node |-> Null,
                    error |-> reportError("variable '" \o node.name
                                            \o "' was not declared", jsNode.loc)]
              ELSE [node |-> VariableReferenceNode(node, sym), error |-> NoError]

\* nonDeclVarRef(node, state, jsNode): the reference of a variable in use;
\* error is the message thrown when the variable was not declared.
nonDeclVarRef(node, st, jsNode) ==
  IF node.type # "IdentifierNode"
    THEN [node |-> node, error |-> NoError]
    ELSE LET sym == lookup(st.scope, node.name)
         IN IF sym = Null
              THEN [node |-> Null,
                    error |-> reportError("variable '" \o node.name
                                            \o "' was not declared", jsNode.loc)]
              ELSE [node |-> VariableReferenceNode(node, sym), error |-> NoError]

\* registerEnvGlobals(state)
RECURSIVE registerGlobals(_, _)
registerGlobals(st, globals) ==
  IF Len(globals) = 0 THEN st
  ELSE registerGlobals(symbol(st, globals[1]), Tail(globals))

registerEnvGlobals(st, globals) == symbol(registerGlobals(st, globals), kDiscardName)

(***************************************************************************)
(* The walkers.  A walker takes the source node and the walker state       *)
(* (lastChild, the symbol table, the error thrown so far) and returns the  *)
(* state it leaves; once an error is thrown nothing else is done.          *)
(***************************************************************************)
\* unsupported(message): the walker of a node type that is rejected.
unsupportedWithoutLocation(message, node, st) == Throw(st, message)

unsupported(message, node, st) == Throw(st, reportError(message, node.loc))

RECURSIVE Visit(_, _)
RECURSIVE VisitArguments(_, _, _)
RECURSIVE VisitElements(_, _, _, _)
RECURSIVE VisitProperties(_, _, _)

\* The loop of ArrayExpression and the map() of CallExpression: visits each
\* element and resolves it with nonDeclVarRef; lastChild is the list so far.
VisitArguments(elements, st, acc) ==
  IF Failed(st) THEN st
  ELSE IF Len(elements) = 0 THEN [st EXCEPT !.lastChild = acc]
  ELSE Bind(Visit(elements[1], st), LAMBDA s1 :
    IF Failed(s1) THEN s1
    ELSE Bind(nonDeclVarRef(s1.lastChild, s1, elements[1]), LAMBDA value :
      IF value.error # NoError THEN Throw(s1, value.error)
      ELSE VisitArguments(Tail(elements), s1, Append(acc, value.node))))

walkIdentifier(node, st) == [st EXCEPT !.lastChild = IdentifierNode(node.name)]

walkLiteral(node, st) ==
  [st EXCEPT !.lastChild =
     IF node.kind = "number" THEN LiteralNode("number", node.num)
     ELSE LiteralNode("boolean", node.bool)]

\* walkBinaryExpression that resolves both operands after visiting both.
walkBinaryExpressionResolvingLast(node, st) ==
  Bind(Visit(node.left, st), LAMBDA s1 :
    IF Failed(s1) THEN s1
    ELSE Bind(Visit(node.right, s1), LAMBDA s2 :
      IF Failed(s2) THEN s2
      ELSE Bind(nonDeclVarRef(s1.lastChild, s2, node.left), LAMBDA left :
        IF left.error # NoError THEN Throw(s2, left.error)
        ELSE Bind(nonDeclVarRef(s2.lastChild, s2, node.right), LAMBDA right :
          IF right.error # NoError THEN Throw(s2, right.error)
          ELSE [s2 EXCEPT !.lastChild =
                  BinaryExpressionNode(node.operator, left.node, right.node)]))))

walkBinaryExpression(node, st) ==
  Bind(Visit(node.left, st), LAMBDA s1 :
    IF Failed(s1) THEN s1
    ELSE Bind(nonDeclVarRef(s1.lastChild, s1, node.left), LAMBDA left :
      IF left.error # NoError THEN Throw(s1, left.error)
      ELSE Bind(Visit(node.right, s1), LAMBDA s2 :
        IF Failed(s2) THEN s2
        ELSE Bind(nonDeclVarRef(s2.lastChild, s2, node.right), LAMBDA right :
          IF right.error # NoError THEN Throw(s2, right.error)
          ELSE [s2 EXCEPT !.lastChild =
                  BinaryExpressionNode(node.operator, left.node, right.node)]))))

walkAssignmentExpression(node, st) ==
  Bind(Visit(node.left, st), LAMBDA s1 :
    IF Failed(s1) THEN s1
    ELSE Bind(Visit(node.right, s1), LAMBDA s2 :
      IF Failed(s2) THEN s2
      ELSE [s2 EXCEPT !.lastChild =
              BinaryExpressionNode(node.operator, s1.lastChild, s2.lastChild)]))

walkUnaryExpression(node, st) ==
  Bind(Visit(node.argument, st), LAMBDA s1 :
    IF Failed(s1) THEN s1
    ELSE [s1 EXCEPT !.lastChild =
            UnaryExpressionNode(node.operator, s1.lastChild, node.prefix)])

walkMemberExpression(node, st) ==
  Bind(Visit(node.object, st), LAMBDA s1 :
    IF Failed(s1) THEN s1
    ELSE Bind(Visit(node.property, s1), LAMBDA s2 :
      IF Failed(s2) THEN s2
      ELSE [s2 EXCEPT !.lastChild =
              PropertyReferenceNode(s1.lastChild, s2.lastChild)]))

\* walkCallExpression without the case of a call to Symbol.
walkCallExpressionSymbolAsFunction(node, st) ==
  Bind(Visit(node.callee, st), LAMBDA s1 :
    IF Failed(s1) THEN s1
    ELSE IF node.callee.type # "MemberExpression"
      THEN Throw(s1, reportError("non-method functions are not supported: "
                                   \o (IF node.callee.type = "Identifier"
                                         THEN node.callee.name ELSE "null"),
                                 node.loc))
    ELSE Bind(VisitArguments(node.arguments, s1, <<>>), LAMBDA s2 :
      IF Failed(s2) THEN s2
      ELSE [s2 EXCEPT !.lastChild =
              MethodReferenceNode(s1.lastChild, s2.lastChild)]))

walkCallExpression(node, st) ==
  Bind(Visit(node.callee, st), LAMBDA s1 :
    IF Failed(s1) THEN s1
    ELSE IF node.callee.type # "MemberExpression"
      THEN IF node.callee.type = "Identifier" /\ node.callee.name = "Symbol"
             THEN Throw(s1, reportError("symbol data types are not supported",
                                        node.loc))
             ELSE Throw(s1, reportError("non-method functions are not supported: "
                                          \o (IF node.callee.type = "Identifier"
                                                THEN node.callee.name ELSE "null"),
                                        node.loc))
    ELSE Bind(VisitArguments(node.arguments, s1, <<>>), LAMBDA s2 :
      IF Failed(s2) THEN s2
      ELSE [s2 EXCEPT !.lastChild =
              MethodReferenceNode(s1.lastChild, s2.lastChild)]))

\* The loop of ArrayExpression over node.elements; a hole is a null element.
VisitElements(node, elements, st, array) ==
  IF Failed(st) THEN st
  ELSE IF Len(elements) = 0 THEN [st EXCEPT !.lastChild = array]
  ELSE IF elements[1] = Null
    THEN Throw(st, reportError("array holes are not supported", node.loc))
  ELSE Bind(Visit(elements[1], st), LAMBDA s1 :
    IF Failed(s1) THEN s1
    ELSE Bind(nonDeclVarRef(s1.lastChild, s1, elements[1]), LAMBDA value :
      IF value.error # NoError THEN Throw(s1, value.error)
      ELSE VisitElements(node, Tail(elements), s1, Append(array, value.node))))

walkArrayExpression(node, st) ==
  Bind(VisitElements(node, node.elements, st, <<>>), LAMBDA s1 :
    IF Failed(s1) THEN s1
    ELSE [s1 EXCEPT !.lastChild = ArrayListNode(s1.lastChild)])

\* `const { name } = key` of the node a property key was lowered to.
KeyName(key) == IF key.type = "IdentifierNode" THEN key.name ELSE "undefined"

\* The loop of ObjectExpression over node.properties.
VisitProperties(properties, st, map) ==
  IF Failed(st) THEN st
  ELSE IF Len(properties) = 0 THEN [st EXCEPT !.lastChild = map]
  ELSE Bind(properties[1], LAMBDA property :
    IF property.computed
      THEN Throw(st, reportError("computed properties are not supported",
                                 property.loc))
    ELSE Bind(Visit(property.key, st), LAMBDA s1 :
      IF Failed(s1) THEN s1
      ELSE IF property.method
        THEN Throw(s1, reportError("methods ('" \o KeyName(s1.lastChild)
                                     \o "') are not supported", property.loc))
      ELSE IF property.kind = "get"
        THEN Throw(s1, reportError("getters ('" \o KeyName(s1.lastChild)
                                     \o "') are not supported", property.loc))
      ELSE IF property.kind = "set"
        THEN Throw(s1, reportError("setters ('" \o KeyName(s1.lastChild)
                                     \o "') are not supported", property.loc))
      ELSE Bind(Visit(property.value, s1), LAMBDA s2 :
        IF Failed(s2) THEN s2
        ELSE Bind(nonDeclVarRef(s2.lastChild, s2, property.value), LAMBDA value :
          IF value.error # NoError THEN Throw(s2, value.error)
          ELSE VisitProperties(Tail(properties), s2,
                               Append(map, [key |-> s1.lastChild,
                                            value |-> value.node]))))))

walkObjectExpression(node, st) ==
  Bind(VisitProperties(node.properties, st, <<>>), LAMBDA s1 :
    IF Failed(s1) THEN s1
    ELSE [s1 EXCEPT !.lastChild = MapNode(s1.lastChild)])

\* visit(node, state, node.type) for an expression node.
Visit(node, st) ==
  IF Failed(st) THEN st
  ELSE CASE node.type = "Identifier" -> walkIdentifier(node, st)
         [] node.type = "Literal" -> walkLiteral(node, st)
         [] node.type = "BinaryExpression" -> walkBinaryExpression(node, st)
         [] node.type = "AssignmentExpression" -> walkAssignmentExpression(node, st)
         [] node.type = "UnaryExpression" -> walkUnaryExpression(node, st)
         [] node.type = "MemberExpression" -> walkMemberExpression(node, st)
         [] node.type = "CallExpression" -> walkCallExpression(node, st)
         [] node.type = "ArrayExpression" -> walkArrayExpression(node, st)
         [] node.type = "ObjectExpression" -> walkObjectExpression(node, st)
         \* No walker is defined for a pattern: the walk falls back on the
         \* base walker, which passes over the names of the pattern and
         \* leaves state.lastChild as it was.
         [] node.type \in {"ObjectPattern", "ArrayPattern"} -> st
         [] node.type = "FunctionExpression" ->
              unsupported("function expressions are not supported", node, st)
         [] node.type = "ThisExpression" ->
              unsupported("'this' expressions are not supported", node, st)

\* ExpressionStatement that declares the left-hand side of an assignment.
walkExpressionStatementDeclaring(node, st) ==
  Bind(Visit(node.expression, st), LAMBDA s1 :
    IF Failed(s1) THEN s1
    ELSE IF node.expression.type = "AssignmentExpression"
      THEN Bind(declVarRef(s1.lastChild.left, s1), LAMBDA reference :
             [reference.st EXCEPT
                !.lastChild = SetDirectiveNode(reference.node, s1.lastChild.right)])
      ELSE Bind(nonDeclVarRef(IdentifierNode(kDiscardName), s1, node.expression),
                LAMBDA reference :
             IF reference.error # NoError THEN Throw(s1, reference.error)
             ELSE [s1 EXCEPT
                     !.lastChild = SetDirectiveNode(reference.node, s1.lastChild)]))

walkExpressionStatement(node, st) ==
  Bind(Visit(node.expression, st), LAMBDA s1 :
    IF Failed(s1) THEN s1
    ELSE IF node.expression.type = "AssignmentExpression"
      THEN Bind(nonDeclVarRef(s1.lastChild.left, s1, node.expression),
                LAMBDA reference :
             IF reference.error # NoError THEN Throw(s1, reference.error)
             ELSE [s1 EXCEPT
                     !.lastChild = SetDirectiveNode(reference.node,
                                                    s1.lastChild.right)])
      ELSE Bind(nonDeclVarRef(IdentifierNode(kDiscardName), s1, node.expression),
                LAMBDA reference :
             IF reference.error # NoError THEN Throw(s1, reference.error)
             ELSE [s1 EXCEPT
                     !.lastChild = SetDirectiveNode(reference.node, s1.lastChild)]))

walkVariableDeclarator(node, st) ==
  Bind(Visit(node.id, st), LAMBDA s1 :
    IF Failed(s1) THEN s1
    ELSE Bind(declVarRef(s1.lastChild, s1), LAMBDA reference :
      IF node.init # Null
        THEN Bind(Visit(node.init, reference.st), LAMBDA s2 :
               IF Failed(s2) THEN s2
               ELSE [s2 EXCEPT !.lastChild =
                       SetDirectiveNode(reference.node, s2.lastChild)])
        ELSE reference.st))

RECURSIVE VisitDeclarations(_, _, _)
VisitDeclarations(declarations, st, statements) ==
  IF Failed(st) THEN st
  ELSE IF Len(declarations) = 0
    THEN [st EXCEPT !.lastChild = StatementListNode(statements)]
  ELSE Bind(walkVariableDeclarator(declarations[1], st), LAMBDA s1 :
    IF Failed(s1) THEN s1
    ELSE VisitDeclarations(Tail(declarations), s1,
                           Append(statements, s1.lastChild)))

walkVariableDeclaration(node, st) == VisitDeclarations(node.declarations, st, <<>>)

RECURSIVE VisitStatement(_, _)

RECURSIVE VisitConsequent(_, _, _)
\* The loop over switchCase.consequent: stops at the first break statement.
VisitConsequent(stmts, st, consequentStmts) ==
  IF Failed(st) \/ Len(stmts) = 0
    THEN [st |-> st, consequentStmts |-> consequentStmts, canFallthrough |-> TRUE]
  ELSE IF stmts[1].type = "BreakStatement"
    THEN [st |-> st, consequentStmts |-> consequentStmts, canFallthrough |-> FALSE]
  ELSE Bind(VisitStatement(stmts[1], st), LAMBDA s1 :
    VisitConsequent(Tail(stmts), s1,
                    IF Failed(s1) THEN consequentStmts
                    ELSE Append(consequentStmts, s1.lastChild)))

\* LowerCase with the fallthrough flag always set, as if no case had a break.
LowerCaseAlwaysFallthrough(switchCase, st, matched, fallthrough, discriminant) ==
  Bind(IF switchCase.test = Null THEN st ELSE Visit(switchCase.test, st),
       LAMBDA s1 :
    IF Failed(s1) THEN s1
    ELSE Bind(VisitConsequent(switchCase.consequent, s1, <<>>), LAMBDA body :
      LET isDefault == switchCase.test = Null
          caseTest == BinaryExpressionNode("==", discriminant, s1.lastChild)
          consequent ==
            StatementListNode(
              body.consequentStmts \o
              << SetDirectiveNode(matched, LiteralNode("boolean", TRUE)),
                 SetDirectiveNode(fallthrough, LiteralNode("boolean", TRUE)) >>)
          test == IF isDefault
                    THEN BinaryExpressionNode("||", fallthrough,
                                              UnaryExpressionNode("!", matched, TRUE))
                    ELSE BinaryExpressionNode("||", fallthrough, caseTest)
      IN IF Failed(body.st) THEN body.st
         ELSE [body.st EXCEPT !.lastChild = IfDirectiveNode(test, consequent, Null)]))

\* LowerCase without the matched flag being set in the body of a case.
LowerCaseMatchedNotSet(switchCase, st, matched, fallthrough, discriminant) ==
  Bind(IF switchCase.test = Null THEN st ELSE Visit(switchCase.test, st),
       LAMBDA s1 :
    IF Failed(s1) THEN s1
    ELSE Bind(VisitConsequent(switchCase.consequent, s1, <<>>), LAMBDA body :
      LET isDefault == switchCase.test = Null
          caseTest == BinaryExpressionNode("==", discriminant, s1.lastChild)
          consequent ==
            StatementListNode(
              body.consequentStmts \o
              << SetDirectiveNode(matched, LiteralNode("boolean", FALSE)),
                 SetDirectiveNode(fallthrough, LiteralNode("boolean", body.canFallthrough)) >>)
          test == IF isDefault
                    THEN BinaryExpressionNode("||", fallthrough,
                                              UnaryExpressionNode("!", matched, TRUE))
                    ELSE BinaryExpressionNode("||", fallthrough, caseTest)
      IN IF Failed(body.st) THEN body.st
         ELSE [body.st EXCEPT !.lastChild = IfDirectiveNode(test, consequent, Null)]))

\* One iteration of the loop over node.cases: the #if directive of a case.
LowerCase(switchCase, st, matched, fallthrough, discriminant) ==
  Bind(IF switchCase.test = Null THEN st ELSE Visit(switchCase.test, st),
       LAMBDA s1 :
    IF Failed(s1) THEN s1
    ELSE Bind(VisitConsequent(switchCase.consequent, s1, <<>>), LAMBDA body :
      LET isDefault == switchCase.test = Null
          caseTest == BinaryExpressionNode("==", discriminant, s1.lastChild)
          consequent ==
            StatementListNode(
              body.consequentStmts \o
              << SetDirectiveNode(matched, LiteralNode("boolean", TRUE)),
                 SetDirectiveNode(fallthrough, LiteralNode("boolean", body.canFallthrough)) >>)
          test == IF isDefault
                    THEN BinaryExpressionNode("||", fallthrough,
                                              UnaryExpressionNode("!", matched, TRUE))
                    ELSE BinaryExpressionNode("||", fallthrough, caseTest)
      IN IF Failed(body.st) THEN body.st
         ELSE [body.st EXCEPT !.lastChild = IfDirectiveNode(test, consequent, Null)]))

RECURSIVE LowerCases(_, _, _, _, _, _)
LowerCases(cases, st, statements, matched, fallthrough, discriminant) ==
  IF Failed(st) THEN st
  ELSE IF Len(cases) = 0
    THEN [st EXCEPT !.lastChild = StatementListNode(statements)]
  ELSE Bind(LowerCase(cases[1], st, matched, fallthrough, discriminant),
            LAMBDA s1 :
    IF Failed(s1) THEN s1
    ELSE LowerCases(Tail(cases), s1, Append(statements, s1.lastChild),
                    matched, fallthrough, discriminant))

walkSwitchStatement(node, st) ==
  Bind(Visit(node.discriminant, st), LAMBDA s0 :
    IF Failed(s0) THEN s0
    ELSE Bind(declVarRef(IdentifierNode("matched"), s0), LAMBDA matched :
      Bind(declVarRef(IdentifierNode("fallthrough"), matched.st),
           LAMBDA fallthrough :
        Bind(declVarRef(IdentifierNode("discriminant"), fallthrough.st),
             LAMBDA discriminant :
          LowerCases(node.cases, discriminant.st,
                     << SetDirectiveNode(matched.node,
                                         LiteralNode("boolean", FALSE)),
                        SetDirectiveNode(fallthrough.node,
                                         LiteralNode("boolean", FALSE)),
                        SetDirectiveNode(discriminant.node, s0.lastChild) >>,
                     matched.node, fallthrough.node, discriminant.node)))))

walkIfStatement(node, st) ==
  Bind(Visit(node.test, st), LAMBDA s1 :
    IF Failed(s1) THEN s1
    ELSE Bind(VisitStatement(node.consequent, s1), LAMBDA s2 :
      IF Failed(s2) THEN s2
      ELSE IF node.alternate = Null
        \* node.alternate.type of a null alternate
        THEN Throw(s2, "TypeError: Cannot read properties of null (reading 'type')")
      ELSE Bind(VisitStatement(node.alternate, s2), LAMBDA s3 :
        IF Failed(s3) THEN s3
        ELSE [s3 EXCEPT !.lastChild =
                IfDirectiveNode(s1.lastChild, s2.lastChild, s3.lastChild)])))

RECURSIVE VisitStatements(_, _, _)
\* The loop of BlockStatement over node.body; lastChild is the list so far.
VisitStatements(stmts, st, statements) ==
  IF Failed(st) THEN st
  ELSE IF Len(stmts) = 0 THEN [st EXCEPT !.lastChild = statements]
  ELSE Bind(VisitStatement(stmts[1], st), LAMBDA s1 :
    IF Failed(s1) THEN s1
    ELSE VisitStatements(Tail(stmts), s1, Append(statements, s1.lastChild)))

\* walkers.BlockStatement, for a block nested in another statement.
walkBlockStatement(node, st) ==
  Bind(VisitStatements(node.body, enterScope(st), <<>>), LAMBDA s1 :
    IF Failed(s1) THEN s1
    ELSE [exitScope(s1) EXCEPT !.lastChild = StatementListNode(s1.lastChild)])

walkForOfStatement(node, st) ==
  Bind(VisitStatement(node.left, st), LAMBDA s1 :
    IF Failed(s1) THEN s1
    ELSE Bind(nonDeclVarRef(s1.lastChild.statements[1], s1, node.left),
              LAMBDA iteratorRef :
      IF iteratorRef.error # NoError THEN Throw(s1, iteratorRef.error)
      ELSE Bind(Visit(node.right, s1), LAMBDA s2 :
        IF Failed(s2) THEN s2
        ELSE Bind(nonDeclVarRef(s2.lastChild, s2, node.right),
                  LAMBDA iterableRef :
          IF iterableRef.error # NoError THEN Throw(s2, iterableRef.error)
          ELSE Bind(VisitStatement(node.body, s2), LAMBDA s3 :
            IF Failed(s3) THEN s3
            ELSE [s3 EXCEPT !.lastChild =
                    ForEachDirectiveNode(iteratorRef.node, iterableRef.node,
                                         s3.lastChild)])))))

\* visit(stmt, state, stmt.type) for a statement.
VisitStatement(node, st) ==
  IF Failed(st) THEN st
  ELSE CASE node.type = "ExpressionStatement" -> walkExpressionStatement(node, st)
         [] node.type = "VariableDeclaration" -> walkVariableDeclaration(node, st)
         [] node.type = "BlockStatement" -> walkBlockStatement(node, st)
         [] node.type = "ForOfStatement" -> walkForOfStatement(node, st)
         [] node.type = "IfStatement" -> walkIfStatement(node, st)
         [] node.type = "SwitchStatement" -> walkSwitchStatement(node, st)
         [] node.type = "BreakStatement" ->
              unsupported("'break' statements are not supported", node, st)
         [] node.type = "ContinueStatement" ->
              unsupported("'continue' statements are not supported", node, st)
         [] node.type = "DebuggerStatement" ->
              unsupported("'debugger' statements are not supported", node, st)
         [] node.type = "DoWhileStatement" ->
              unsupported("'do...while' loops are not supported", node, st)
         [] node.type = "ForInStatement" ->
              unsupported("'for...in' loops are not supported", node, st)
         [] node.type = "ForStatement" ->
              unsupported("'for' loops are not supported", node, st)
         [] node.type = "FunctionDeclaration" ->
              unsupported("function declarations are not supported", node, st)
         [] node.type = "LabeledStatement" ->
              unsupported("labeled statements are not supported", node, st)
         [] node.type = "ReturnStatement" ->
              unsupported("'return' statements are not supported", node, st)
         [] node.type = "ThrowStatement" ->
              unsupported("'throw' statements are not supported", node, st)
         [] node.type = "TryStatement" ->
              unsupported("'try...catch' statements are not supported", node, st)
         [] node.type = "WhileStatement" ->
              unsupported("'while' loops are not supported", node, st)
         [] node.type = "WithStatement" ->
              unsupported("'with' statements are not supported", node, st)

(***************************************************************************)
(* The state of one transpile() call.                                      *)
(***************************************************************************)
VARIABLES
  pc,          \* "start", "walking", "walked", "done", or "error" once thrown
  env,         \* the env argument: its globals
  lastChild,   \* state.lastChild
  scope,       \* state.scope: the frames of the symbol table, outermost first
  versions,    \* the table's version counter of each name
  error,       \* the message of the Error thrown, NoError if none
  statements,  \* the statements array of each Program/BlockStatement under way
  nvisited,    \* number of statements visited so far
  output,      \* the text transpile() returns
  visited,     \* history: the source statement visited last
  before,      \* history: the frames before that statement was visited
  decls,       \* history: every declaration made, in order
  frameIds,    \* history: the identity of each frame of scope
  nextFrame,   \* history: the next frame identity
  store,       \* SwitchSpec: the variables of the VTL engine running the output
  ip,          \* SwitchSpec: number of directives of the output the engine has run
  ran,         \* SwitchSpec: the values the directives run so far assigned to $g
  taken,       \* SwitchSpec: the positions of the #if directives whose body ran
  context      \* the SerializationContext: its indentLevel

walkVars == <<lastChild, scope, versions, error, decls, frameIds, nextFrame>>
engineVars == <<store, ip, ran, taken>>
vars == <<pc, env, lastChild, scope, versions, error, statements, nvisited,
          output, visited, before, decls, frameIds, nextFrame, store, ip, ran, taken,
          context>>

\* The walker state made of the variables.
St == [lastChild |-> lastChild, scope |-> scope, versions |-> versions,
       error |-> error, decls |-> decls, frameIds |-> frameIds,
       nextFrame |-> nextFrame]

Commit(s) ==
  /\ lastChild' = s.lastChild
  /\ scope' = s.scope
  /\ versions' = s.versions
  /\ error' = s.error
  /\ decls' = s.decls
  /\ frameIds' = s.frameIds
  /\ nextFrame' = s.nextFrame

\* statements.push(state.lastChild) in the innermost Program/BlockStatement.
Push(stack, node) == [stack EXCEPT ![Len(stack)] = Append(@, node)]

\* transpile() before the walk, for env.globals one of collections.
Start(collections) ==
  /\ pc = "start"
  /\ env \in [globals : collections]
  /\ lastChild = Null
  /\ scope = <<>>
  /\ versions = NoVersions
  /\ error = NoError
  /\ statements = <<>>
  /\ nvisited = 0
  /\ output = ""
  /\ visited = Null
  /\ before = <<>>
  /\ decls = <<>>
  /\ frameIds = <<>>
  /\ nextFrame = 1
  /\ store = EmptyFrame
  /\ ip = 0
  /\ ran = <<>>
  /\ taken = {}
  /\ context = [indentLevel |-> 0]

\* env.globals is absent or ['g'].
Init == Start({ <<>>, <<"g">> })

\* walkers.Program up to its loop: the table and the globals.
Program ==
  /\ pc = "start"
  /\ Commit(registerEnvGlobals(enterScope(St), env.globals))
  /\ statements' = << <<>> >>
  /\ pc' = "walking"
  /\ UNCHANGED <<env, nvisited, output, visited, before, engineVars, context>>

\* One iteration of the loop of Program or BlockStatement: visits stmt and
\* pushes state.lastChild, or stops the transpilation at the error thrown.
VisitNext(stmt, bound) ==
  /\ pc = "walking"
  /\ nvisited < bound
  /\ \E s \in {VisitStatement(stmt, St)} :
       /\ Commit(s)
       /\ pc' = IF Failed(s) THEN "error" ELSE "walking"
       /\ statements' = IF Failed(s) THEN statements
                        ELSE Push(statements, s.lastChild)
  /\ nvisited' = nvisited + 1
  /\ visited' = stmt
  /\ before' = scope
  /\ UNCHANGED <<env, output, engineVars, context>>

(***************************************************************************)
(* The source statements the modelled programs are made of.  The statement *)
(* visited next starts on line Line, column 0.                             *)
(***************************************************************************)
Line == nvisited + 1
Id(name, column) == Identifier(name, Loc(Line, column))
Num(n, column) == NumLiteral(n, Loc(Line, column))
Assign(name, right) == AssignmentExpression("=", Id(name, 0), right, Loc(Line, 0))
Stmt(expression) == ExpressionStatementJs(expression, expression.loc)

\* const <name>; and const <name> = <init>;
Declaration(name, init) ==
  VariableDeclarationJs(<< VariableDeclarator(Id(name, 6), init, Loc(Line, 6)) >>,
                        Loc(Line, 0))
Declarations ==
  { Declaration(n, init) : n \in {"a", kDiscardName}, init \in {Num(1, 10), Id("a", 10)} }
ScopeDeclarations ==
  { Declaration(n, init) : n \in DeclNames, init \in {Null, Num(1, 10)} }

\* <name> = <value>;
Assignments == { Assign("a", right) : right \in {Num(1, 4), Id("a", 4)} }

\* a;  a + 1;  !a;  a.b;  a.b(a);  [a];
Expressions ==
  { Id("a", 0),
    BinaryExpression("+", Id("a", 0), Num(1, 4), Loc(Line, 0)),
    UnaryExpression("!", Id("a", 1), Loc(Line, 0)),
    MemberExpression(Id("a", 0), Id("b", 2), Loc(Line, 0)),
    CallExpression(MemberExpression(Id("a", 0), Id("b", 2), Loc(Line, 0)),
                   << Id("a", 4) >>, Loc(Line, 0)),
    ArrayExpression(<< Id("a", 1) >>, Loc(Line, 0)) }

\* switch (a) { case 1: a = 1; break; default: }  and  switch (1) { case a: }
Switches ==
  { SwitchStatementJs(Id("a", 8),
                      << SwitchCase(Num(1, 17), << Stmt(Assign("a", Num(1, 4))),
                                                   BreakStatement(Loc(Line, 30)) >>,
                                    Loc(Line, 12)),
                         SwitchCase(Null, <<>>, Loc(Line, 40)) >>,
                      Loc(Line, 0)),
    SwitchStatementJs(Num(1, 8),
                      << SwitchCase(Id("a", 17), <<>>, Loc(Line, 12)) >>,
                      Loc(Line, 0)) }

\* if (<a or a == 1>) a = 1; else a = 1;
Ifs ==
  { IfStatementJs(test, Stmt(Assign("a", Num(1, 4))),
                  Stmt(Assign("a", Num(1, 4))), Loc(Line, 0)) :
      test \in {Id("a", 4),
                BinaryExpression("==", Id("a", 4), Num(1, 9), Loc(Line, 4))} }

(***************************************************************************)
(* The walk of a program, one statement of Program or of a block at a time.*)
(***************************************************************************)
VariableDeclaration == \E node \in Declarations : VisitNext(node, MaxStmts)

ExpressionStatement ==
  \E expression \in Assignments \cup Expressions :
    VisitNext(Stmt(expression), MaxStmts)

SwitchStatement == \E node \in Switches : VisitNext(node, MaxStmts)

IfStatement == \E node \in Ifs : VisitNext(node, MaxStmts)

\* walkers.BlockStatement up to its loop.
EnterBlock(bound) ==
  /\ pc = "walking"
  /\ nvisited < bound
  /\ Len(scope) < MaxDepth
  /\ Commit(enterScope(St))
  /\ statements' = Append(statements, <<>>)
  /\ nvisited' = nvisited + 1
  /\ visited' = [type |-> "BlockStatement", loc |-> Loc(Line, 0)]
  /\ before' = scope
  /\ pc' = pc
  /\ UNCHANGED <<env, output, engineVars, context>>

\* walkers.BlockStatement after its loop.
BlockStatementExit ==
  /\ pc = "walking"
  /\ Len(scope) > 1
  /\ LET block == StatementListNode(statements[Len(statements)])
     IN /\ Commit([exitScope(St) EXCEPT !.lastChild = block])
        /\ statements' = Push(SubSeq(statements, 1, Len(statements) - 1), block)
  /\ visited' = [type |-> "BlockStatement"]
  /\ UNCHANGED <<pc, env, nvisited, output, before, engineVars, context>>

\* walkers.Program after its loop.
ProgramExit ==
  /\ pc = "walking"
  /\ Len(scope) = 1
  /\ Commit([exitScope(St) EXCEPT !.lastChild = StatementListNode(statements[1])])
  /\ statements' = <<>>
  /\ pc' = "walked"
  /\ UNCHANGED <<env, nvisited, output, visited, before, engineVars, context>>

\* transpile(): the serialization of the root node.
transpile ==
  /\ pc = "walked"
  /\ output' = Serialize(lastChild, 0)
  /\ pc' = "done"
  /\ UNCHANGED <<env, walkVars, statements, nvisited, visited, before,
                 engineVars, context>>

Next ==
  \/ Program
  \/ VariableDeclaration
  \/ ExpressionStatement
  \/ SwitchStatement
  \/ IfStatement
  \/ EnterBlock(MaxStmts)
  \/ BlockStatementExit
  \/ ProgramExit
  \/ transpile

Spec == Init /\ [][Next]_vars

(***************************************************************************)
(* ScopeSpec: programs made of declarations and blocks only, to drive the  *)
(* symbol table through longer sequences of declare, push and pop.         *)
(***************************************************************************)
ScopeDeclaration == \E node \in ScopeDeclarations : VisitNext(node, MaxDecls)

\* <name> = 1;
ScopeAssignment ==
  \E n \in DeclNames : VisitNext(Stmt(Assign(n, Num(1, 4))), MaxDecls)

ScopeNext ==
  \/ Program
  \/ ScopeDeclaration
  \/ ScopeAssignment
  \/ EnterBlock(MaxDecls)
  \/ BlockStatementExit
  \/ ProgramExit
  \/ transpile

ScopeSpec == Init /\ [][ScopeNext]_vars

(***************************************************************************)
(* SwitchSpec: one switch statement is transpiled and the VTL engine runs  *)
(* the directives it was lowered to.  The discriminant and the case tests  *)
(* are number literals; the k-th statement of case i is g = 10 * i + k, so *)
(* that the values assigned to $g tell which case bodies ran.              *)
(***************************************************************************)
Marker(i, k) == Stmt(Assign("g", Num(10 * i + k, 4)))

\* The shapes of a case body: empty; s; s break; break s.
CaseBody(i, shape) ==
  CASE shape = 1 -> <<>>
    [] shape = 2 -> << Marker(i, 1) >>
    [] shape = 3 -> << Marker(i, 1), BreakStatement(Loc(Line, 30)) >>
    [] shape = 4 -> << BreakStatement(Loc(Line, 30)), Marker(i, 2) >>

\* switch (d) { case tests[1]: <body 1> ... case tests[n]: <body n> }
SwitchInput(d, tests, shapes) ==
  SwitchStatementJs(Num(d, 8),
                    [i \in DOMAIN tests |->
                       SwitchCase(tests[i], CaseBody(i, shapes[i]), Loc(Line, 12))],
                    Loc(Line, 0))

\* A switch statement has at most one default case.
LowerSwitch ==
  /\ pc = "walking"
  /\ nvisited < 1
  /\ \E n \in 0..MaxCases :
       \E tests \in [1..n -> {Null, Num(1, 17), Num(2, 17)}],
          shapes \in [1..n -> 1..4], d \in 1..3 :
         /\ Cardinality({i \in 1..n : tests[i] = Null}) <= 1
         /\ VisitNext(SwitchInput(d, tests, shapes), 1)

RECURSIVE Directives(_)
RECURSIVE DirectivesOf(_)
DirectivesOf(nodes) ==
  IF Len(nodes) = 0 THEN <<>>
  ELSE Directives(nodes[1]) \o DirectivesOf(Tail(nodes))

\* The directives of a template, in the order the engine meets them.
Directives(node) ==
  IF node.type = "StatementListNode" THEN DirectivesOf(node.statements)
  ELSE << node >>

RECURSIVE Eval(_, _)
\* The value of a VTL expression in the engine's variables.
Eval(node, vtl) ==
  CASE node.type = "LiteralNode" ->
         (IF node.kind = "number" THEN node.num ELSE node.bool)
    [] node.type = "VariableReferenceNode" -> vtl[node.symbol.name]
    [] node.type = "UnaryExpressionNode" -> ~ Eval(node.argument, vtl)
    [] node.type = "BinaryExpressionNode" ->
         (IF node.operator = "||"
            THEN Eval(node.left, vtl) \/ Eval(node.right, vtl)
            ELSE Eval(node.left, vtl) = Eval(node.right, vtl))

RECURSIVE Run(_, _)
\* The engine runs a list of #set directives.
Run(nodes, e) ==
  IF Len(nodes) = 0 THEN e
  ELSE LET name == nodes[1].reference.symbol.name
           value == Eval(nodes[1].expression, e.store)
       IN Run(Tail(nodes),
              [store |-> (name :> value) @@ e.store,
               ran |-> IF name = "g" THEN Append(e.ran, value) ELSE e.ran])

NextDirective == Directives(lastChild)[ip + 1]

\* The engine runs a #set directive of the output.
ExecSetDirective ==
  /\ pc = "done"
  /\ ip < Len(Directives(lastChild))
  /\ NextDirective.type = "SetDirectiveNode"
  /\ LET e == Run(<< NextDirective >>, [store |-> store, ran |-> ran])
     IN store' = e.store /\ ran' = e.ran
  /\ ip' = ip + 1
  /\ UNCHANGED <<pc, env, walkVars, statements, nvisited, output, visited,
                 before, taken, context>>

\* The engine runs an #if directive of the output.
ExecIfDirective ==
  /\ pc = "done"
  /\ ip < Len(Directives(lastChild))
  /\ NextDirective.type = "IfDirectiveNode"
  /\ IF Eval(NextDirective.test, store)
       THEN LET e == Run(NextDirective.consequent.statements,
                         [store |-> store, ran |-> ran])
            IN store' = e.store /\ ran' = e.ran /\ taken' = taken \cup {ip + 1}
       ELSE UNCHANGED <<store, ran, taken>>
  /\ ip' = ip + 1
  /\ UNCHANGED <<pc, env, walkVars, statements, nvisited, output, visited,
                 before, context>>

SwitchNext ==
  \/ Program
  \/ LowerSwitch
  \/ ProgramExit
  \/ transpile
  \/ ExecSetDirective
  \/ ExecIfDirective

SwitchSpec == Init /\ [][SwitchNext]_vars

(***************************************************************************)
(* ExprSpec: programs of one expression statement, to drive the walkers    *)
(* and the rendering of expressions through every shape of an expression.  *)
(***************************************************************************)

RECURSIVE ChainOf(_)
\* The chain a<access 1>...<access n>: access i is .<name> or .<name>().
ChainOf(accesses) ==
  IF Len(accesses) = 0 THEN Id("a", 0)
  ELSE IF accesses[Len(accesses)][1] = "method"
    THEN CallExpression(
           MemberExpression(ChainOf(SubSeq(accesses, 1, Len(accesses) - 1)),
                            Id(accesses[Len(accesses)][2], 2 * Len(accesses)),
                            Loc(Line, 0)),
           <<>>, Loc(Line, 0))
    ELSE MemberExpression(ChainOf(SubSeq(accesses, 1, Len(accesses) - 1)),
                          Id(accesses[Len(accesses)][2], 2 * Len(accesses)),
                          Loc(Line, 0))

\* <chain>;
ChainStatement ==
  /\ pc = "walking"
  /\ nvisited < 1
  /\ \E n \in 1..MaxChain :
       \E accesses \in [1..n -> {"property", "method"} \X {"b", "c"}] :
         VisitNext(Stmt(ChainOf(accesses)), 1)

RECURSIVE BinaryTrees(_, _)
\* The expressions of binary operators over the operands lo, ..., hi in
\* this order, in every grouping.
BinaryTrees(lo, hi) ==
  IF lo = hi THEN {Num(lo, 2 * lo)}
  ELSE UNION {{BinaryExpression(op, left, right, Loc(Line, 0)) :
                 op \in {"+", "-", "*", "/", "=="},
                 left \in BinaryTrees(lo, k),
                 right \in BinaryTrees(k + 1, hi)} : k \in lo..(hi - 1)}

\* <expression of binary operators>;
BinaryStatement ==
  /\ pc = "walking"
  /\ nvisited < 1
  /\ \E n \in 2..MaxOperands :
       \E node \in BinaryTrees(1, n) : VisitNext(Stmt(node), 1)

ExprNext ==
  \/ Program
  \/ ChainStatement
  \/ BinaryStatement
  \/ ProgramExit
  \/ transpile

ExprSpec == Init /\ [][ExprNext]_vars

(***************************************************************************)
(* Programs of one if / else-if chain, with or without a final else        *)
(* (test/index.js, 'if...else if...else statement'):                       *)
(*   if (t1) { 1; } else if (t2) { 2; } ... else { n + 1; }                *)
(***************************************************************************)
\* true | false | 1 == 2
IfTest(kind, column) ==
  CASE kind = "true" -> BoolLiteral(TRUE, Loc(1, column))
    [] kind = "false" -> BoolLiteral(FALSE, Loc(1, column))
    [] kind = "compare" ->
         BinaryExpression("==", NumLiteral(1, Loc(1, column)),
                          NumLiteral(2, Loc(1, column + 5)), Loc(1, column))

\* { <i>; }
IfBody(i, column) ==
  BlockStatementJs(<< ExpressionStatementJs(NumLiteral(i, Loc(1, column + 2)),
                                            Loc(1, column + 2)) >>,
                   Loc(1, column))

RECURSIVE IfChain(_, _, _)
\* The conditionals i.. of the chain; the i-th starts at column 30 * (i - 1).
IfChain(tests, hasElse, i) ==
  IfStatementJs(IfTest(tests[i], (30 * i) - 26),
                IfBody(i, (30 * i) - 18),
                IF i < Len(tests) THEN IfChain(tests, hasElse, i + 1)
                ELSE IF hasElse THEN IfBody(i + 1, (30 * i) - 6)
                ELSE Null,
                Loc(1, 30 * (i - 1)))

IfChainStatement ==
  /\ pc = "walking"
  /\ \E n \in 1..MaxIfs : \E hasElse \in BOOLEAN :
     \E tests \in [1..n -> {"true", "false", "compare"}] :
       VisitNext(IfChain(tests, hasElse, 1), 1)

IfNext ==
  \/ Program
  \/ IfChainStatement
  \/ ProgramExit
  \/ transpile

IfSpec == Init /\ [][IfNext]_vars

(***************************************************************************)
(* Programs of one statement holding one construct the transpiler rejects, *)
(* at each place a statement can stand (test/index.js, the tests of the    *)
(* unsupported statements).  The whole program is on line 1.               *)
(***************************************************************************)
RejectedStatements ==
  {"BreakStatement", "ContinueStatement", "DebuggerStatement", "DoWhileStatement",
   "ForInStatement", "ForStatement", "FunctionDeclaration", "LabeledStatement",
   "ThrowStatement", "TryStatement", "WhileStatement", "WithStatement"}

\* The construct as a statement, as an expression statement, or as the
\* initializer of `const a = ...;`.
RejectedInputs ==
  (RejectedStatements \X {"statement"})
    \cup ({"FunctionExpression", "ThisExpression"} \X {"expression", "init"})

\* The column of the construct in a statement that starts at column.
RejectedColumn(carrier, column) == IF carrier = "init" THEN column + 10 ELSE column

RejectedAt(kind, carrier, column) ==
  CASE carrier = "statement" -> RejectedNode(kind, Loc(1, column))
    [] carrier = "expression" ->
         ExpressionStatementJs(RejectedNode(kind, Loc(1, column)), Loc(1, column))
    [] carrier = "init" ->
         VariableDeclarationJs(
           << VariableDeclarator(Identifier("a", Loc(1, column + 6)),
                                 RejectedNode(kind, Loc(1, column + 10)),
                                 Loc(1, column + 6)) >>,
           Loc(1, column))

Positions == 1..8
\* The column at which the statement S starts in each of the programs below.
PositionColumn(pos) ==
  CASE pos = 1 -> 0  [] pos = 2 -> 2  [] pos = 3 -> 12 [] pos = 4 -> 21
    [] pos = 5 -> 23 [] pos = 6 -> 21 [] pos = 7 -> 28 [] pos = 8 -> 23

\* 1: S                           5: for (const a of [1]) { S }
\* 2: { S }                       6: switch (1) { case 1: S }
\* 3: if (true) { S } else { }    7: switch (1) { case 1: break; S }
\* 4: if (true) { } else { S }    8: switch (1) { case 1: { S } }
\* all on the line of S.
Position(pos, S) ==
  LET At(column) == Loc(S.loc.line, column)
  IN CASE pos = 1 -> S
       [] pos = 2 -> BlockStatementJs(<< S >>, At(0))
       [] pos = 3 -> IfStatementJs(BoolLiteral(TRUE, At(4)),
                                   BlockStatementJs(<< S >>, At(10)),
                                   BlockStatementJs(<<>>, At(19)), At(0))
       [] pos = 4 -> IfStatementJs(BoolLiteral(TRUE, At(4)),
                                   BlockStatementJs(<<>>, At(10)),
                                   BlockStatementJs(<< S >>, At(19)), At(0))
       [] pos = 5 -> ForOfStatementJs(
                       VariableDeclarationJs(
                         << VariableDeclarator(Identifier("a", At(11)), Null,
                                               At(11)) >>, At(5)),
                       ArrayExpression(<< NumLiteral(1, At(17)) >>, At(16)),
                       BlockStatementJs(<< S >>, At(21)), At(0))
       [] pos = 6 -> SwitchStatementJs(NumLiteral(1, At(8)),
                       << SwitchCase(NumLiteral(1, At(18)), << S >>, At(13)) >>,
                       At(0))
       [] pos = 7 -> SwitchStatementJs(NumLiteral(1, At(8)),
                       << SwitchCase(NumLiteral(1, At(18)),
                                     << BreakStatement(At(21)), S >>, At(13)) >>,
                       At(0))
       [] pos = 8 -> SwitchStatementJs(NumLiteral(1, At(8)),
                       << SwitchCase(NumLiteral(1, At(18)),
                                     << BlockStatementJs(<< S >>, At(21)) >>,
                                     At(13)) >>,
                       At(0))

\* The parser accepts `break` only in a loop or a switch and `continue`
\* only in a loop, so these are the places the walk can meet them.
Parses(kind, pos) ==
  CASE kind = "BreakStatement" -> pos \in {5, 6, 7, 8}
    [] kind = "ContinueStatement" -> pos = 5
    [] OTHER -> TRUE

RejectedProgram(kind, carrier, pos) ==
  Position(pos, RejectedAt(kind, carrier, PositionColumn(pos)))

RejectedStatement ==
  /\ pc = "walking"
  /\ \E input \in RejectedInputs : \E pos \in Positions :
       /\ Parses(input[1], pos)
       /\ VisitNext(RejectedProgram(input[1], input[2], pos), 1)

(***************************************************************************)
(* Expressions of a supported kind: array literals with or without holes,  *)
(* object literals with the property forms of the language, and calls of a *)
(* plain function (test/index.js, 'array expression hole', 'object         *)
(* expression ...', 'non-method function call').                           *)
(***************************************************************************)
\* The i-th element of an array literal at column: 1, a hole, or [ , ].
ElementAt(kind, i, column) ==
  CASE kind = "number" -> NumLiteral(1, Loc(1, column + (4 * i) - 3))
    [] kind = "hole" -> Null
    [] kind = "array" ->
         ArrayExpression(<< Null >>, Loc(1, column + (4 * i) - 3))
Arrays(column) ==
  { ArrayExpression([i \in 1..Len(kinds) |-> ElementAt(kinds[i], i, column)],
                    Loc(1, column)) :
      kinds \in UNION { [1..m -> {"number", "hole", "array"}] :
                          m \in 1..MaxElements } }

\* p: 1 | p() {} | get p() {} | set p(v) {} | [1]: 1 | [1]() {}
PropertyAt(shape, i, column) ==
  Property(IF shape \in {"computed", "computedMethod"}
             THEN NumLiteral(1, Loc(1, column + (16 * i) - 13))
             ELSE Identifier("p", Loc(1, column + (16 * i) - 14)),
           IF shape \in {"init", "computed"}
             THEN NumLiteral(1, Loc(1, column + (16 * i) - 9))
             ELSE RejectedNode("FunctionExpression", Loc(1, column + (16 * i) - 9)),
           shape \in {"computed", "computedMethod"},
           shape \in {"method", "computedMethod"},
           IF shape \in {"get", "set"} THEN shape ELSE "init",
           Loc(1, column + (16 * i) - 14))
Objects(column) ==
  { ObjectExpression([i \in 1..Len(shapes) |-> PropertyAt(shapes[i], i, column)],
                     Loc(1, column)) :
      shapes \in UNION { [1..m -> {"init", "method", "get", "set", "computed",
                                    "computedMethod"}] :
                           m \in 0..MaxProperties } }

\* a(), g(), Symbol(), g.b()(), and the method calls g.b() and g.b(a)
Calls(column) ==
  { CallExpression(
      MemberExpression(Identifier("g", Loc(1, column)),
                       Identifier("b", Loc(1, column + 2)), Loc(1, column)),
      << Identifier("a", Loc(1, column + 4)) >>, Loc(1, column)) }
  \cup
  { CallExpression(callee, <<>>, Loc(1, column)) :
      callee \in { Identifier("a", Loc(1, column)), Identifier("g", Loc(1, column)),
                   Identifier("Symbol", Loc(1, column)),
                   MemberExpression(Identifier("g", Loc(1, column)),
                                    Identifier("b", Loc(1, column + 2)),
                                    Loc(1, column)),
                   CallExpression(
                     MemberExpression(Identifier("g", Loc(1, column)),
                                      Identifier("b", Loc(1, column + 2)),
                                      Loc(1, column)),
                     <<>>, Loc(1, column)) } }

\* E; or const a = E;
Carry(carrier, expression, column) ==
  IF carrier = "expression"
    THEN ExpressionStatementJs(expression, Loc(1, column))
    ELSE VariableDeclarationJs(
           << VariableDeclarator(Identifier("a", Loc(1, column + 6)), expression,
                                 Loc(1, column + 6)) >>, Loc(1, column))

\* The statement with the expression, at the top level or in a block.
MisusedStatement ==
  /\ pc = "walking"
  /\ \E pos \in {1, 2} : \E carrier \in {"expression", "init"} :
       \E expression \in
           Arrays(RejectedColumn(carrier, PositionColumn(pos)))
             \cup Objects(RejectedColumn(carrier, PositionColumn(pos)))
             \cup Calls(RejectedColumn(carrier, PositionColumn(pos))) :
         VisitNext(Position(pos, Carry(carrier, expression, PositionColumn(pos))), 1)

(***************************************************************************)
(* Statements with a destructuring target: const {a} = 1; const [a] = 1;   *)
(* ({a} = 1); [a] = 1;                                                     *)
(***************************************************************************)
PatternForms ==
  {"ObjectPattern", "ArrayPattern"} \X {"declaration", "assignment"}

\* The column of the pattern in a statement that starts at column.
PatternColumn(form, column) ==
  IF form[2] = "declaration" THEN column + 6
  ELSE IF form[1] = "ObjectPattern" THEN column + 1 ELSE column

PatternAt(form, column) ==
  IF form[2] = "declaration"
    THEN VariableDeclarationJs(
           << VariableDeclarator(RejectedNode(form[1], Loc(1, column + 6)),
                                 NumLiteral(1, Loc(1, column + 12)),
                                 Loc(1, column + 6)) >>, Loc(1, column))
    ELSE ExpressionStatementJs(
           AssignmentExpression("=",
             RejectedNode(form[1], Loc(1, PatternColumn(form, column))),
             NumLiteral(1, Loc(1, PatternColumn(form, column) + 6)),
             Loc(1, PatternColumn(form, column))),
           Loc(1, column))

PatternStatement ==
  /\ pc = "walking"
  /\ \E form \in PatternForms : \E pos \in Positions :
       VisitNext(Position(pos, PatternAt(form, PositionColumn(pos))), 1)

(***************************************************************************)
(* Programs with several nodes in a row, any of which may be rejected: the *)
(* operands of a + b + c, the elements of [a, b, c], the arguments of      *)
(* g.b(a, b, c), and the statements of { s1 s2 s3 } (test/index.js, 'use   *)
(* of undeclared variable').  The name a is not declared outside.          *)
(***************************************************************************)
Containers == {"binary", "array", "arguments", "block"}

\* The column of the i-th unit of a container that starts at column 0.
UnitColumn(container, i) ==
  (9 * (i - 1)) + (CASE container = "binary" -> 0 [] container = "array" -> 1
                     [] container = "arguments" -> 4 [] container = "block" -> 2)

\* 1 | a | this | function () {} | var a = 1; | while (1) {} | debugger;
UnitAt(kind, column) ==
  CASE kind = "number" -> NumLiteral(1, Loc(1, column))
    [] kind = "name" -> Identifier("a", Loc(1, column))
    [] kind = "this" -> RejectedNode("ThisExpression", Loc(1, column))
    [] kind = "function" -> RejectedNode("FunctionExpression", Loc(1, column))
    [] kind = "declaration" ->
         VariableDeclarationJs(
           << VariableDeclarator(Identifier("a", Loc(1, column + 4)),
                                 NumLiteral(1, Loc(1, column + 8)),
                                 Loc(1, column + 4)) >>, Loc(1, column))
    [] kind = "while" -> RejectedNode("WhileStatement", Loc(1, column))
    [] kind = "debugger" -> RejectedNode("DebuggerStatement", Loc(1, column))

UnitsOf(container) ==
  UNION { [1..n -> IF container = "block"
                     THEN {"declaration", "while", "debugger"}
                     ELSE {"number", "name", "this", "function"}] :
          n \in 2..MaxUnits }

RECURSIVE Sum(_, _)
\* u1 + u2 + ... + un, grouped to the left.
Sum(kinds, n) ==
  IF n = 1 THEN UnitAt(kinds[1], UnitColumn("binary", 1))
  ELSE BinaryExpression("+", Sum(kinds, n - 1),
                        UnitAt(kinds[n], UnitColumn("binary", n)), Loc(1, 0))

Several(container, kinds) ==
  LET units == [i \in 1..Len(kinds) |-> UnitAt(kinds[i], UnitColumn(container, i))]
  IN CASE container = "binary" ->
            ExpressionStatementJs(Sum(kinds, Len(kinds)), Loc(1, 0))
       [] container = "array" ->
            ExpressionStatementJs(ArrayExpression(units, Loc(1, 0)), Loc(1, 0))
       [] container = "arguments" ->
            ExpressionStatementJs(
              CallExpression(MemberExpression(Identifier("g", Loc(1, 0)),
                                              Identifier("b", Loc(1, 2)),
                                              Loc(1, 0)),
                             units, Loc(1, 0)), Loc(1, 0))
       [] container = "block" -> BlockStatementJs(units, Loc(1, 0))

SeveralStatement ==
  /\ pc = "walking"
  /\ \E container \in Containers : \E kinds \in UnitsOf(container) :
       VisitNext(Several(container, kinds), 1)

RejectNext ==
  \/ Program
  \/ RejectedStatement
  \/ MisusedStatement
  \/ PatternStatement
  \/ SeveralStatement
  \/ ProgramExit
  \/ transpile

RejectSpec == Init /\ [][RejectNext]_vars

(***************************************************************************)
(* GlobalSpec: the caller supplies any collection of global names, the     *)
(* reserved discard name and repeated names included, and the program is   *)
(* one statement that uses a name it does not declare, at the top level or *)
(* in the body of a directive.                                             *)
(***************************************************************************)
MaxGlobals == 2

\* env.globals: every array of at most MaxGlobals names.
GlobalCollections ==
  UNION { [1..n -> {"g", kDiscardName}] : n \in 0..MaxGlobals }

GlobalInit == Start(GlobalCollections)

\* g = 1;  g += 1;  g -= 1;  g;  1;  matched = 1;  starting at column.
GlobalUses(column) ==
  { ExpressionStatementJs(expression, Loc(1, column)) :
      expression \in
        { AssignmentExpression(op, Identifier("g", Loc(1, column)),
                               NumLiteral(1, Loc(1, column + 5)), Loc(1, column)) :
            op \in {"=", "+=", "-="} }
        \cup { Identifier("g", Loc(1, column)), NumLiteral(1, Loc(1, column)),
               AssignmentExpression("=", Identifier("matched", Loc(1, column)),
                                    NumLiteral(1, Loc(1, column + 10)),
                                    Loc(1, column)) } }

\* The statement alone, in an if branch, in a for...of body, in a switch
\* case, and in a for...of body in an if branch.
GlobalPrograms ==
  UNION { { Position(pos, use) : use \in GlobalUses(PositionColumn(pos)) } :
            pos \in {1, 3, 5, 6} }
    \cup { Position(3, Position(5, use)) :
             use \in GlobalUses(PositionColumn(3) + PositionColumn(5)) }

GlobalProgram ==
  /\ pc = "walking"
  /\ \E program \in GlobalPrograms : VisitNext(program, 1)

GlobalNext == Program \/ GlobalProgram \/ ProgramExit \/ transpile

GlobalSpec == GlobalInit /\ [][GlobalNext]_vars

(***************************************************************************)
(* RenderSpec: a caller of the exported node classes builds a tree and     *)
(* serializes it with one SerializationContext.  The tree is a statement,  *)
(* `#set( $g = 1 )` or the null statement the walk of an empty statement   *)
(* leaves, nested in at most MaxWraps block directives.                    *)
(***************************************************************************)
MaxWraps == 3

\* The directive that holds statement in its consequent, in its alternate, in
\* the consequent of its else-if, or in the body of its loop.
Wrap(kind, statement) ==
  LET set == SetDirectiveNode(VariableReferenceNode(IdentifierNode("g"),
                                                    [name |-> "g"]),
                              LiteralNode("number", 1))
      body == StatementListNode(<< statement >>)
      other == StatementListNode(<< set >>)
  IN CASE kind = "consequent" ->
            IfDirectiveNode(LiteralNode("boolean", TRUE), body, other)
       [] kind = "alternate" ->
            IfDirectiveNode(LiteralNode("boolean", TRUE), other, body)
       [] kind = "elseif" ->
            IfDirectiveNode(LiteralNode("boolean", TRUE), other,
                            IfDirectiveNode(LiteralNode("boolean", FALSE),
                                            body, other))
       [] kind = "foreach" ->
            ForEachDirectiveNode(set.reference,
                                 ArrayListNode(<< LiteralNode("number", 1) >>),
                                 body)

RECURSIVE Wrapped(_, _)
\* statement in the directives of kinds, the innermost first.
Wrapped(kinds, statement) ==
  IF Len(kinds) = 0 THEN statement
  ELSE Wrapped(Tail(kinds), Wrap(kinds[1], statement))

\* new StatementListNode([...]) and the directives around its statement.
BuildTree ==
  /\ pc = "start"
  /\ \E n \in 0..MaxWraps :
       \E kinds \in [1..n -> {"consequent", "alternate", "elseif", "foreach"}] :
         \E statement \in
              {Null, SetDirectiveNode(VariableReferenceNode(IdentifierNode("g"),
                                                            [name |-> "g"]),
                                      LiteralNode("number", 1))} :
           lastChild' = StatementListNode(<< Wrapped(kinds, statement) >>)
  /\ pc' = "walked"
  /\ UNCHANGED <<env, scope, versions, error, decls, frameIds, nextFrame,
                 statements, nvisited, output, visited, before, engineVars,
                 context>>

\* tree.serialize(context): the text, or the TypeError that was thrown.
SerializeTree ==
  /\ pc = "walked"
  /\ \E result \in {serialize(lastChild, context)} :
       /\ output' = result.str
       /\ context' = result.context
       /\ pc' = IF result.thrown THEN "error" ELSE "done"
       /\ error' = IF result.thrown
                     THEN "TypeError: Cannot read properties of null (reading 'serialize')"
                     ELSE error
  /\ UNCHANGED <<env, lastChild, scope, versions, decls, frameIds, nextFrame,
                 statements, nvisited, visited, before, engineVars>>

RenderNext == BuildTree \/ SerializeTree

RenderSpec == Init /\ [][RenderNext]_vars

(***************************************************************************)
(* The switch statement of the source program, by the semantics of the     *)
(* source language: what the lowered directives are compared against.      *)
(***************************************************************************)
FirstBreak(switchCase) ==
  LET breaks == {k \in DOMAIN switchCase.consequent :
                   switchCase.consequent[k].type = "BreakStatement"}
  IN IF breaks = {} THEN Len(switchCase.consequent) + 1
     ELSE CHOOSE k \in breaks : \A j \in breaks : k <= j

HasBreak(switchCase) == FirstBreak(switchCase) <= Len(switchCase.consequent)

\* The statements of a case that run when the case is entered.
BeforeBreak(switchCase) ==
  SubSeq(switchCase.consequent, 1, FirstBreak(switchCase) - 1)

\* The values the statements g = <value> of a case assign.
Assigned(switchCase) ==
  [k \in DOMAIN BeforeBreak(switchCase) |->
     BeforeBreak(switchCase)[k].expression.right.num]

\* The case a switch on value d enters: the first one whose test is d, else
\* the default case, else none (0).
JsEntry(cases, d) ==
  LET hits == {i \in DOMAIN cases : cases[i].test # Null /\ cases[i].test.num = d}
      defaults == {i \in DOMAIN cases : cases[i].test = Null}
  IN IF hits # {} THEN CHOOSE i \in hits : \A j \in hits : i <= j
     ELSE IF defaults # {} THEN CHOOSE i \in defaults : TRUE
     ELSE 0

RECURSIVE JsRunFrom(_, _)
\* The values assigned from case i on, falling through until a break.
JsRunFrom(cases, i) ==
  IF i = 0 \/ i > Len(cases) THEN <<>>
  ELSE Assigned(cases[i]) \o
         (IF HasBreak(cases[i]) THEN <<>> ELSE JsRunFrom(cases, i + 1))

JsSwitch(node) == JsRunFrom(node.cases, JsEntry(node.cases, node.discriminant.num))

\* The engine has run every directive the switch statement was lowered to.
EngineDone ==
  /\ pc = "done"
  /\ visited.type = "SwitchStatement"
  /\ ip = Len(Directives(lastChild))

\* The body of the #if directive of case i ran.
Taken(i) == (3 + i) \in taken

\* C1: for every switch statement and discriminant value, the lowered
\* directives run the same case bodies, in the same order, as the source
\* switch: entry at the first matching case (or the default), then falling
\* through until a case that ends with a break.
C1_LoweredSwitchRunsSourceCases == EngineDone => ran = JsSwitch(visited)

\* The text of the test of the #if directive of a case.
ExpectedTest(switchCase) ==
  IF switchCase.test = Null
    THEN "$fallthrough || !$matched"
    ELSE "$fallthrough || $discriminant == " \o ToString(switchCase.test.num)

\* The text of the directives in the body of the #if directive of a case.
ExpectedBody(switchCase) ==
  [k \in DOMAIN Assigned(switchCase) |->
     "#set( $g = " \o ToString(Assigned(switchCase)[k]) \o " )"]
  \o << "#set( $matched = true )",
        "#set( $fallthrough = " \o BoolText(~ HasBreak(switchCase)) \o " )" >>

Lowered == pc = "walking" /\ visited.type = "SwitchStatement"

\* C2: a switch with n cases is lowered to the #set directives matched =
\* false, fallthrough = false, discriminant = <discriminant>, then exactly n
\* #if directives in case order; the test of a case is fallthrough ||
\* discriminant == <value>, of the default case fallthrough || !matched; the
\* body is the statements before the first break, then matched = true and
\* fallthrough = <true iff the case has no break>.
C2_SwitchLoweringShape ==
  Lowered =>
    LET out == lastChild.statements
        cases == visited.cases
    IN /\ lastChild.type = "StatementListNode"
       /\ Len(out) = 3 + Len(cases)
       /\ \A k \in 1..3 : out[k].type = "SetDirectiveNode"
       /\ ToStr(out[1]) = "#set( $matched = false )"
       /\ ToStr(out[2]) = "#set( $fallthrough = false )"
       /\ ToStr(out[3]) = "#set( $discriminant = "
                            \o ToString(visited.discriminant.num) \o " )"
       /\ \A i \in DOMAIN cases :
            LET directive == out[3 + i]
            IN /\ directive.type = "IfDirectiveNode"
               /\ directive.alternate = Null
               /\ ~ directive.isElseIf
               /\ ToStr(directive.test) = ExpectedTest(cases[i])
               /\ directive.consequent.type = "StatementListNode"
               /\ [k \in DOMAIN directive.consequent.statements |->
                     ToStr(directive.consequent.statements[k])]
                   = ExpectedBody(cases[i])

\* A lowered switch with three cases, the default in the middle, a case with
\* a break and a case with a statement after its break.
C2_Witness ==
  /\ Lowered
  /\ Len(visited.cases) = 3
  /\ visited.cases[2].test = Null
  /\ HasBreak(visited.cases[1]) /\ Len(Assigned(visited.cases[1])) = 1
  /\ HasBreak(visited.cases[3]) /\ Len(visited.cases[3].consequent) = 2
       /\ Assigned(visited.cases[3]) = <<>>

\* Some case before case k has the value of the discriminant as its test.
EarlierMatch(node, k) ==
  \E j \in 1..(k - 1) : node.cases[j].test.num = node.discriminant.num

\* The case before case k ran and has no break.
FallsInto(node, k) == k > 1 /\ Taken(k - 1) /\ ~ HasBreak(node.cases[k - 1])

\* C3: when the lowered switch has run, the body of the default case was
\* skipped if an earlier case matched and the case before the default did
\* not fall through into it, and it ran if no earlier case matched or the
\* case before it ran without a break.
C3_DefaultOnlyWhenUnmatched ==
  EngineDone =>
    \A k \in DOMAIN visited.cases :
      visited.cases[k].test = Null =>
        (Taken(k) <=> (~ EarlierMatch(visited, k) \/ FallsInto(visited, k)))

\* The default case was skipped after an earlier case matched and broke out.
C3_Witness ==
  /\ EngineDone
  /\ \E k \in DOMAIN visited.cases :
       /\ visited.cases[k].test = Null
       /\ EarlierMatch(visited, k)
       /\ Taken(k - 1) /\ HasBreak(visited.cases[k - 1])
       /\ ~ Taken(k)

(***************************************************************************)
(* The symbol table, by the history of the declarations.                   *)
(***************************************************************************)
\* decls[i] is the Nth(i)-th declaration of its name.
Nth(i) == Cardinality({j \in 1..i : decls[j].name = decls[i].name})

ExpectedTarget(i) ==
  IF Nth(i) = 1 THEN decls[i].name
  ELSE decls[i].name \o "_" \o ToString(Nth(i) - 1)

\* The statement visited last, which did not throw.
Walked(type) == pc = "walking" /\ visited.type = type

DeclaredWithInit ==
  /\ Walked("VariableDeclaration")
  /\ visited.declarations[1].init # Null

C5_TargetNamesDistinct ==
  \A i, j \in DOMAIN decls : i # j => decls[i].target # decls[j].target

\* The declarations of name made in the frames now on the stack.
LiveDecls(name) ==
  {i \in DOMAIN decls :
     /\ decls[i].name = name
     /\ \E k \in DOMAIN frameIds : frameIds[k] = decls[i].frame}

\* The declaration a use of name refers to: the latest one of the innermost
\* frame that declares name.
Innermost(name) ==
  CHOOSE i \in LiveDecls(name) :
    \A j \in LiveDecls(name) :
      \/ decls[j].frame < decls[i].frame
      \/ decls[j].frame = decls[i].frame /\ j <= i

AssignedName == visited.expression.left.name

Assigned1 ==
  /\ Walked("ExpressionStatement")
  /\ visited.expression.type = "AssignmentExpression"

RECURSIVE Uses(_)
\* The Identifier nodes of node in a position that is not a declaration site
\* and not the property name of a member expression.
Uses(node) ==
  CASE node.type = "Identifier" -> {node}
    [] node.type \in {"BinaryExpression", "AssignmentExpression"} ->
         Uses(node.left) \cup Uses(node.right)
    [] node.type = "UnaryExpression" -> Uses(node.argument)
    [] node.type = "MemberExpression" -> Uses(node.object)
    [] node.type = "CallExpression" ->
         Uses(node.callee)
           \cup UNION {Uses(node.arguments[i]) : i \in DOMAIN node.arguments}
    [] node.type = "ArrayExpression" ->
         UNION {Uses(node.elements[i]) : i \in DOMAIN node.elements}
    [] node.type = "ExpressionStatement" -> Uses(node.expression)
    [] node.type = "VariableDeclaration" ->
         UNION {Uses(node.declarations[i].init) : i \in DOMAIN node.declarations}
    [] node.type = "SwitchStatement" ->
         Uses(node.discriminant)
           \cup UNION {Uses(node.cases[i].test) : i \in DOMAIN node.cases}
           \cup UNION {UNION {Uses(node.cases[i].consequent[j]) :
                                j \in DOMAIN node.cases[i].consequent} :
                        i \in DOMAIN node.cases}
    [] node.type = "IfStatement" ->
         Uses(node.test) \cup Uses(node.consequent) \cup Uses(node.alternate)
    [] OTHER -> {}

\* The names a statement declares.
DeclaredBy(node) ==
  IF node.type = "VariableDeclaration"
    THEN {node.declarations[i].id.name : i \in DOMAIN node.declarations}
    ELSE {}

NotDeclared(name, loc) ==
  "Line " \o ToString(loc.line) \o ", column " \o ToString(loc.column + 1)
    \o ": variable '" \o name \o "' was not declared"

\* The target name of name in the table the statement visited last was
\* visited with.
TargetBefore(name) == lookup(before, name).name

\* C7: a bare identifier that is the whole initializer of a declaration or
\* the whole value of an assignment is rendered as the reference "$" and the
\* target name lookup finds for it.
C7_BareIdentifierValueIsReference ==
  /\ ( /\ Walked("VariableDeclaration")
       /\ visited.declarations[1].init.type = "Identifier"
       /\ visited.declarations[1].init.name \notin DeclaredBy(visited)
       /\ lookup(before, visited.declarations[1].init.name) # Null )
     => ToStr(lastChild.statements[1].expression)
          = "$" \o TargetBefore(visited.declarations[1].init.name)
  /\ ( /\ Assigned1
       /\ visited.expression.right.type = "Identifier"
       /\ lookup(before, visited.expression.right.name) # Null )
     => ToStr(lastChild.expression)
          = "$" \o TargetBefore(visited.expression.right.name)

\* The uses, in the statement visited last, of names that had no declaration
\* and no global in scope.
Undeclared ==
  {u \in Uses(visited) :
     u.name \notin DeclaredBy(visited) /\ lookup(before, u.name) = Null}

\* C8: a statement that uses, in any position that is not a declaration, a
\* name with no declaration in scope stops the transpilation with the error
\* "variable '<name>' was not declared" at the use; no output is produced.
C8_UndeclaredUseIsError ==
  ( /\ visited.type \notin {"Null", "BlockStatement"}
    /\ Undeclared # {} )
  => /\ pc = "error"
     /\ output = ""
     /\ \E u \in Undeclared :
          \E l \in {u.loc, visited.loc} \cup {visited.expression.loc :
                       x \in IF visited.type = "ExpressionStatement" THEN {1} ELSE {}} :
            error = NotDeclared(u.name, l)

\* The visit of an assignment statement.
AssignmentStep ==
  /\ nvisited' = nvisited + 1
  /\ visited'.type = "ExpressionStatement"
  /\ visited'.expression.type = "AssignmentExpression"

\* C9: an assignment statement declares nothing: the table is the same after
\* it as before it, its left-hand side is the reference lookup finds, and
\* when lookup finds none the transpilation stops with "variable '<name>' was
\* not declared".
C9_AssignmentNeverDeclares ==
  [][AssignmentStep =>
       LET left == visited'.expression.left
       IN /\ scope' = scope
          /\ versions' = versions
          /\ decls' = decls
          /\ IF lookup(scope, left.name) = Null
               THEN /\ pc' = "error"
                    /\ error' = NotDeclared(left.name, visited'.expression.loc)
               ELSE /\ pc' = "walking"
                    /\ lastChild'.type = "SetDirectiveNode"
                    /\ lastChild'.reference
                         = VariableReferenceNode(IdentifierNode(left.name),
                                                 lookup(scope, left.name))]_vars

\* An assignment to a name that was never declared has stopped the
\* transpilation and has left the table as it was.
C9_Witness ==
  /\ pc = "error"
  /\ visited.type = "ExpressionStatement"
  /\ visited.expression.type = "AssignmentExpression"
  /\ lookup(scope, AssignedName) = Null
  /\ scope = before
  /\ error = NotDeclared(AssignedName, visited.expression.loc)

IsChain(node) == node.type \in {"MemberExpression", "CallExpression"}

RECURSIVE SourceText(_)
\* The text of a source chain.
SourceText(node) ==
  CASE node.type = "Identifier" -> node.name
    [] node.type = "MemberExpression" ->
         SourceText(node.object) \o "." \o node.property.name
    [] node.type = "CallExpression" -> SourceText(node.callee) \o "()"

RECURSIVE RootFlags(_)
\* The root flags of the PropertyReferences of a rendered chain, the
\* outermost first.
RootFlags(node) ==
  CASE node.type = "PropertyReferenceNode" ->
         << node.isReferenceRoot >> \o RootFlags(node.receiver)
    [] node.type = "MethodReferenceNode" -> RootFlags(node.property)
    [] OTHER -> <<>>

ChainWalked ==
  /\ Walked("ExpressionStatement")
  /\ IsChain(visited.expression)

\* C11: a chain of property accesses and method calls on one root receiver
\* is rendered with one sigil, at its start: of its PropertyReferences the
\* outermost one alone has the root flag set.
C11_ChainHasOneSigilAtRoot ==
  ChainWalked =>
    /\ ToStr(lastChild.expression) = "$" \o SourceText(visited.expression)
    /\ RootFlags(lastChild.expression)[1]
    /\ \A i \in 2..Len(RootFlags(lastChild.expression)) :
         ~ RootFlags(lastChild.expression)[i]

\* a.b().c has been walked.
C11_Witness ==
  /\ ChainWalked
  /\ Len(RootFlags(lastChild.expression)) = 2
  /\ ToStr(lastChild.expression) = "$a.b().c"

(***************************************************************************)
(* Parentheses of binary expressions.                                      *)
(***************************************************************************)
HasPrecedence(operator) == operator \in {"+", "-", "*", "/"}
Level(operator) == IF operator \in {"+", "-"} THEN 1 ELSE 2

\* An operand that is a binary expression of a strictly lower precedence.
LowerOperand(parent, operand) ==
  /\ operand.type = "BinaryExpression"
  /\ HasPrecedence(parent.operator)
  /\ HasPrecedence(operand.operator)
  /\ Level(operand.operator) < Level(parent.operator)

RECURSIVE BinaryText(_)
\* The text of a source expression, its lower operands alone in parentheses.
BinaryText(node) ==
  IF node.type = "Literal" THEN ToString(node.num)
  ELSE (IF LowerOperand(node, node.left)
          THEN "(" \o BinaryText(node.left) \o ")" ELSE BinaryText(node.left))
       \o " " \o node.operator \o " "
       \o (IF LowerOperand(node, node.right)
             THEN "(" \o BinaryText(node.right) \o ")" ELSE BinaryText(node.right))

BinaryWalked ==
  /\ Walked("ExpressionStatement")
  /\ visited.expression.type = "BinaryExpression"
  /\ visited.expression.left.type \in {"Literal", "BinaryExpression"}

\* C12: in the text of a binary expression an operand is in parentheses if
\* and only if it is a binary expression whose precedence is strictly lower
\* than the parent's; an operator without a precedence, in the operand or
\* in the parent, never gives parentheses.
C12_ParenthesesIffLowerPrecedence ==
  BinaryWalked =>
    ToStr(lastChild.expression) = BinaryText(visited.expression)

\* (1 + 2) * 3 has been walked.
C12_Witness ==
  /\ BinaryWalked
  /\ LowerOperand(visited.expression, visited.expression.left)
  /\ ToStr(lastChild.expression) = "(1 + 2) * 3"

(***************************************************************************)
(* C13: rejected constructs.                                               *)
(***************************************************************************)
\* The message the tests of the unsupported statements expect for each kind.
RejectionReason(kind) ==
  CASE kind = "BreakStatement" -> "'break' statements are not supported"
    [] kind = "ContinueStatement" -> "'continue' statements are not supported"
    [] kind = "DebuggerStatement" -> "'debugger' statements are not supported"
    [] kind = "DoWhileStatement" -> "'do...while' loops are not supported"
    [] kind = "ForInStatement" -> "'for...in' loops are not supported"
    [] kind = "ForStatement" -> "'for' loops are not supported"
    [] kind = "FunctionDeclaration" -> "function declarations are not supported"
    [] kind = "FunctionExpression" -> "function expressions are not supported"
    [] kind = "LabeledStatement" -> "labeled statements are not supported"
    [] kind = "ThisExpression" -> "'this' expressions are not supported"
    [] kind = "ThrowStatement" -> "'throw' statements are not supported"
    [] kind = "TryStatement" -> "'try...catch' statements are not supported"
    [] kind = "WhileStatement" -> "'while' loops are not supported"
    [] kind = "WithStatement" -> "'with' statements are not supported"

\* The walk reaches the statement at pos: not what follows the break of a
\* case, and a break at the top level of a case only ends the case.
Reached(kind, pos) == pos # 7 /\ ~ (kind = "BreakStatement" /\ pos = 6)

RejectedWalked(kind, carrier, pos) ==
  /\ nvisited = 1
  /\ visited = RejectedProgram(kind, carrier, pos)

RejectionError(kind, carrier, pos) ==
  "Line 1, column " \o ToString(RejectedColumn(carrier, PositionColumn(pos)) + 1)
    \o ": " \o RejectionReason(kind)

\* C13: once the walk has visited a rejected construct (a loop other than
\* for...of, a function, `this`, throw, try, a labeled statement, `with`,
\* `debugger`, continue, or a break that is not at the top level of a switch
\* case), the transpilation has failed with the message of that construct
\* prefixed by the line and 1-based column of the construct, and there is
\* no output.
C13_RejectedConstructAborts ==
  \A input \in RejectedInputs : \A pos \in Positions :
    (RejectedWalked(input[1], input[2], pos) /\ Reached(input[1], pos)) =>
      /\ pc = "error"
      /\ error = RejectionError(input[1], input[2], pos)
      /\ output = ""

C13_Witness ==
  /\ RejectedWalked("ThisExpression", "init", 5)
  /\ pc = "error"
  /\ error = "Line 1, column 34: 'this' expressions are not supported"
  /\ output = ""

(***************************************************************************)
(* C14: supported node kinds used in an unsupported way.                   *)
(***************************************************************************)
\* The expression of `E;` or `const a = E;`, at the top level or in a block.
Carried(S) ==
  IF S.type = "ExpressionStatement" THEN S.expression
  ELSE IF S.type = "VariableDeclaration" THEN S.declarations[1].init
  ELSE Null
MisusedExpression ==
  Carried(IF visited.type = "BlockStatement" THEN visited.body[1] ELSE visited)
MisuseWalked ==
  /\ nvisited = 1
  /\ MisusedExpression.type \in {"ArrayExpression", "ObjectExpression", "CallExpression"}

Located(loc, reason) ==
  "Line " \o ToString(loc.line) \o ", column " \o ToString(loc.column + 1)
    \o ": " \o reason

\* The array literals in array (itself and its elements) that have a hole.
ArraysWithHole(array) ==
  { a \in {array} \cup { array.elements[i] : i \in 1..Len(array.elements) } :
      /\ a.type = "ArrayExpression"
      /\ \E j \in 1..Len(a.elements) : a.elements[j] = Null }

\* The messages that match the form of a property.
PropertyReasons(property) ==
  (IF property.computed THEN {"computed properties are not supported"} ELSE {})
    \cup (IF property.method /\ property.key.type = "Identifier"
            THEN {"methods ('" \o property.key.name \o "') are not supported"}
            ELSE {})
    \cup (IF property.kind = "get"
            THEN {"getters ('" \o property.key.name \o "') are not supported"}
            ELSE {})
    \cup (IF property.kind = "set"
            THEN {"setters ('" \o property.key.name \o "') are not supported"}
            ELSE {})
PropertyErrors(object) ==
  UNION { { Located(object.properties[i].loc, reason) :
              reason \in PropertyReasons(object.properties[i]) } :
          i \in 1..Len(object.properties) }

CallReason(call) ==
  IF call.callee.name = "Symbol" THEN "symbol data types are not supported"
  ELSE "non-method functions are not supported: " \o call.callee.name

\* C14: an array literal with a hole fails with `array holes are not
\* supported` at the location of the array that has the hole; an object
\* literal with a computed property, a method, a getter or a setter fails
\* with a message matching such a property at that property's location; a
\* call whose callee is not a member expression fails, with `non-method
\* functions are not supported: <name>` at the call when the callee is a
\* name other than Symbol and `symbol data types are not supported` when it
\* is Symbol.  None of them produces output.
C14_MisuseIsFatal ==
  MisuseWalked =>
    /\ (MisusedExpression.type = "ArrayExpression"
          /\ ArraysWithHole(MisusedExpression) # {}) =>
         /\ pc = "error" /\ output = ""
         /\ error \in { Located(a.loc, "array holes are not supported") :
                           a \in ArraysWithHole(MisusedExpression) }
    /\ (MisusedExpression.type = "ObjectExpression"
          /\ PropertyErrors(MisusedExpression) # {}) =>
         /\ pc = "error" /\ output = ""
         /\ error \in PropertyErrors(MisusedExpression)
    /\ (MisusedExpression.type = "CallExpression"
          /\ MisusedExpression.callee.type # "MemberExpression") =>
         /\ pc = "error" /\ output = ""
         /\ MisusedExpression.callee.type = "Identifier" =>
              error = Located(MisusedExpression.loc, CallReason(MisusedExpression))

\* [1, [ , ]]; fails at the inner array.
C14_Witness ==
  /\ MisuseWalked
  /\ visited.type = "ExpressionStatement"
  /\ MisusedExpression.type = "ArrayExpression"
  /\ Len(MisusedExpression.elements) = 2
  /\ ArraysWithHole(MisusedExpression) = {MisusedExpression.elements[2]}
  /\ error = "Line 1, column 6: array holes are not supported"
  /\ pc = "error"

(***************************************************************************)
(* C15: destructuring targets.                                             *)
(***************************************************************************)
PatternWalked(form, pos) ==
  /\ nvisited = 1
  /\ visited = Position(pos, PatternAt(form, PositionColumn(pos)))

\* C15: once the walk has visited a statement whose declaration or
\* assignment target is an object or array pattern, the transpilation has
\* failed (with whatever message), and there is no output.
C15_DestructuringIsRejected ==
  \A form \in PatternForms : \A pos \in Positions \ {7} :
    PatternWalked(form, pos) =>
      /\ pc = "error"
      /\ error # NoError
      /\ output = ""

(***************************************************************************)
(* C16: a while loop anywhere in the input.                                *)
(***************************************************************************)
\* C16: once the walk has visited a statement that holds a while loop, at
\* the top level, in a block, in either branch of an if, in the body of a
\* for...of loop, or in a switch case (before or after the break of the
\* case, or in a block of the case), the transpilation has failed with the
\* while-loop message at the location of the loop.
C16_WhileAnywhereAborts ==
  \A pos \in Positions :
    RejectedWalked("WhileStatement", "statement", pos) =>
      /\ pc = "error"
      /\ error = RejectionError("WhileStatement", "statement", pos)

(***************************************************************************)
(* C17: the format of the error message.                                   *)
(***************************************************************************)
\* The nodes directly under a source node.
Children(node) ==
  LET One(f) == IF f \in DOMAIN node THEN {node[f]} ELSE {}
      Each(f) == IF f \in DOMAIN node
                  THEN { node[f][i] : i \in 1..Len(node[f]) } ELSE {}
  IN One("left") \cup One("right") \cup One("test") \cup One("alternate")
       \cup One("expression") \cup One("id") \cup One("init") \cup One("callee")
       \cup One("object") \cup One("property") \cup One("discriminant")
       \cup One("key") \cup One("value") \cup One("argument")
       \cup Each("declarations") \cup Each("arguments") \cup Each("elements")
       \cup Each("properties") \cup Each("cases")
       \cup (IF node.type \in {"BlockStatement"} THEN Each("body") ELSE One("body"))
       \cup (IF node.type = "SwitchCase" THEN Each("consequent")
             ELSE One("consequent"))

RECURSIVE NodeLocs(_)
\* The locations of the nodes of a source tree.
NodeLocs(node) ==
  IF node = Null THEN {}
  ELSE {node.loc} \cup UNION { NodeLocs(child) : child \in Children(node) }

\* The reasons for which the walkers reject a program of RejectSpec.
Reasons ==
  { RejectionReason(kind) :
      kind \in RejectedStatements \cup {"FunctionExpression", "ThisExpression"} }
    \cup { "array holes are not supported", "computed properties are not supported",
           "symbol data types are not supported" }
    \cup { form \o " ('" \o name \o "') are not supported" :
             form \in {"methods", "getters", "setters"}, name \in {"p", "undefined"} }
    \cup { "non-method functions are not supported: " \o name :
             name \in {"a", "g", "null"} }
    \cup { "variable '" \o name \o "' was not declared" : name \in {"a", "g"} }

\* C17: reportError gives `Line <L>, column <C + 1>: <reason>` for a reason
\* and a location of line L and 0-based column C, and the reason alone when
\* there is no location; and whenever the transpilation has failed, its
\* error is a reason of the walkers prefixed with the line and the 1-based
\* column of a node of the program, never the reason alone.
C17_ErrorMessageFormat ==
  /\ \A reason \in Reasons :
       /\ reportError(reason, Null) = reason
       /\ \A line \in 1..2 : \A column \in 0..2 :
            reportError(reason, Loc(line, column)) =
              "Line " \o ToString(line) \o ", column " \o ToString(column + 1)
                \o ": " \o reason
  /\ pc = "error" =>
       /\ error \in { Located(loc, reason) :
                        loc \in NodeLocs(visited), reason \in Reasons }
       /\ error \notin Reasons

\* g.b(a); where a is not declared
C17_Witness ==
  /\ pc = "error"
  /\ nvisited = 1
  /\ visited.type = "ExpressionStatement"
  /\ visited.expression.type = "CallExpression"
  /\ error = "Line 1, column 5: variable 'a' was not declared"

(***************************************************************************)
(* C18: the first error wins.                                              *)
(***************************************************************************)
\* The units the language of the transpiler has no place for, and the
\* message for each.
Offending(kind) == kind \notin {"number", "declaration"}
UnitReason(kind) ==
  CASE kind = "name" -> "variable 'a' was not declared"
    [] kind = "this" -> "'this' expressions are not supported"
    [] kind = "function" -> "function expressions are not supported"
    [] kind = "while" -> "'while' loops are not supported"
    [] kind = "debugger" -> "'debugger' statements are not supported"

\* The offending units of kinds, in the order of the source.
OffendingUnits(kinds) == { i \in 1..Len(kinds) : Offending(kinds[i]) }
FirstOffending(kinds) ==
  CHOOSE i \in OffendingUnits(kinds) : \A j \in OffendingUnits(kinds) : i <= j

SeveralWalked(container, kinds) ==
  /\ nvisited = 1
  /\ visited = Several(container, kinds)

IfTestText(kind) ==
  CASE kind = "true" -> "true" [] kind = "false" -> "false"
    [] kind = "compare" -> "1 == 2"
IfBodyText(i) == "  #set( $discard = " \o ToString(i) \o " )\n"

RECURSIVE ElseIfsText(_, _)
\* One #elseif and its body for each of the conditionals i.. of the chain.
ElseIfsText(tests, i) ==
  IF i > Len(tests) THEN ""
  ELSE "#elseif( " \o IfTestText(tests[i]) \o " )\n" \o IfBodyText(i)
         \o ElseIfsText(tests, i + 1)

\* One #if, the #elseif's, at most one #else, and one #end.
IfChainText(tests, hasElse) ==
  "#if( " \o IfTestText(tests[1]) \o " )\n" \o IfBodyText(1)
    \o ElseIfsText(tests, 2)
    \o (IF hasElse THEN "#else\n" \o IfBodyText(Len(tests) + 1) ELSE "")
    \o "#end\n"

IfChainWalked(tests, hasElse) ==
  /\ nvisited = 1
  /\ visited = IfChain(tests, hasElse, 1)

\* C19: once the walk has visited an if statement with no else branch, the
\* transpilation has not failed, and the output it returns is `#if( test )`,
\* the body, and `#end`, with no `#else`.
C19_IfWithoutElse ==
  \A kind \in {"true", "false", "compare"} :
    IfChainWalked(<< kind >>, FALSE) =>
      /\ pc # "error"
      /\ pc = "done" => output = IfChainText(<< kind >>, FALSE)

\* C20: once the walk has visited an if / else-if / ... / else chain, the
\* transpilation has not failed, and the output it returns is one `#if`,
\* one `#elseif` for each chained conditional, one `#else` and one `#end`
\* at the end of the whole chain, each followed by its body.
C20_ElseIfChainRendering ==
  \A n \in 1..MaxIfs : \A tests \in [1..n -> {"true", "false", "compare"}] :
    IfChainWalked(tests, TRUE) =>
      /\ pc # "error"
      /\ pc = "done" => output = IfChainText(tests, TRUE)

\* if (true) { 1; } else if (1 == 2) { 2; } else if (false) { 3; } else { 4; }
C20_Witness ==
  /\ IfChainWalked(<< "true", "compare", "false" >>, TRUE)
  /\ pc = "done"
  /\ output = "#if( true )\n  #set( $discard = 1 )\n#elseif( 1 == 2 )\n"
                \o "  #set( $discard = 2 )\n#elseif( false )\n"
                \o "  #set( $discard = 3 )\n#else\n  #set( $discard = 4 )\n#end\n"

(***************************************************************************)
(* C21: the statements a variable declaration is lowered to.               *)
(***************************************************************************)
\* The declarators of a declaration that have an initializer, in source order.
Initialized(declarations) == SelectSeq(declarations, LAMBDA d : d.init # Null)

\* C21: once the walk has visited a variable declaration, the statement list
\* it left holds one SetDirective for each declarator with an initializer, in
\* source order, whose value is that initializer, and nothing else: a
\* declarator without an initializer adds no statement node and no text.
C21_OneSetPerInitializer ==
  Walked("VariableDeclaration") =>
    LET inits == Initialized(visited.declarations)
    IN /\ lastChild.type = "StatementListNode"
       /\ Len(lastChild.statements) = Len(inits)
       /\ \A i \in DOMAIN inits :
            /\ lastChild.statements[i].type = "SetDirectiveNode"
            /\ lastChild.statements[i].reference.type = "VariableReferenceNode"
            /\ lastChild.statements[i].expression = Visit(inits[i].init, St).lastChild
       /\ Len(inits) = 0 => Serialize(lastChild, 0) = ""

(***************************************************************************)
(* C22: the names registered before the walk.                              *)
(***************************************************************************)
\* The names registerEnvGlobals registers: the caller's and the discard name.
Preregistered == {env.globals[i] : i \in DOMAIN env.globals} \cup {kDiscardName}

\* The top-level statement <name> = 1; has been visited.
AssignedAtTopLevel(name) ==
  /\ pc \in {"walking", "error"}
  /\ visited.type = "ExpressionStatement"
  /\ visited.expression.type = "AssignmentExpression"
  /\ visited.expression.operator = "="
  /\ visited.expression.left.name = name

\* C22: from the start of the walk on, the outermost frame holds every name
\* the caller supplied and the discard name, each with its own name as target
\* name, whatever the collection supplied; an assignment to such a name that
\* the program does not declare is lowered to a #set of `$<name>`.
C22_GlobalsKeepTheirNames ==
  /\ pc = "walking" =>
       \A name \in Preregistered :
         /\ name \in DOMAIN scope[1]
         /\ scope[1][name].name = name
  /\ \A name \in Preregistered :
       AssignedAtTopLevel(name) =>
         /\ pc = "walking"
         /\ ToStr(lastChild.reference) = "$" \o name

(***************************************************************************)
(* C23: the root receiver of a chain.                                      *)
(***************************************************************************)
\* The statement visited last is the property access <root>.<property>;
\* whose root is an identifier.
RootedAccess ==
  /\ pc \in {"walking", "error"}
  /\ visited.type = "ExpressionStatement"
  /\ visited.expression.type = "MemberExpression"
  /\ visited.expression.object.type = "Identifier"

\* C23: once the walk has visited a property access rooted at an identifier,
\* either the root is not in scope and the walk has failed with the
\* undeclared-variable error at the root, or the access renders the target
\* name the table gives the root: `$<target>.<property>`.
C23_ChainRootIsResolved ==
  RootedAccess =>
    LET root == visited.expression.object
    IN IF lookup(before, root.name) = Null
         THEN /\ pc = "error"
              /\ error = NotDeclared(root.name, root.loc)
         ELSE /\ pc = "walking"
              /\ ToStr(lastChild.expression)
                   = "$" \o TargetBefore(root.name) \o "."
                       \o visited.expression.property.name

(***************************************************************************)
(* C24: the frames of the table when a visit is left.                      *)
(***************************************************************************)
\* The visit of the Program has been left, normally or by an error.
ProgramLeft == pc \in {"walked", "done", "error"}

\* The visit of a block statement of the Program has been left.
BlockLeft ==
  /\ pc \in {"walking", "error"}
  /\ visited.type = "BlockStatement"

\* C24: when the visit of the Program has been left, normally or by an error
\* raised under it, the table has no frame, as before the visit; when the
\* visit of a block has been left, on either path, the frames are the ones
\* the block was entered with.
C24_FramesNestOnEveryPath ==
  /\ ProgramLeft => scope = <<>>
  /\ BlockLeft => /\ Len(scope) = Len(before)
                  /\ \A i \in DOMAIN before : DOMAIN scope[i] = DOMAIN before[i]

(***************************************************************************)
(* C25: the indent depth of the context after a render.                    *)
(***************************************************************************)
\* tree.serialize(context) has returned or thrown.
Rendered == pc \in {"done", "error"} /\ lastChild # Null

\* C25: when the render of a tree of block directives has returned or has
\* thrown, the indent depth of the context is what it was before the render.
C25_RenderRestoresIndentDepth == Rendered => context.indentLevel = 0

(***************************************************************************)
(* C26: the temporaries of a switch statement.                             *)
(***************************************************************************)
\* matched = 1; at column: a use of a name the program never declares.
MatchedUse(column) ==
  ExpressionStatementJs(
    AssignmentExpression("=", Identifier("matched", Loc(1, column)),
                         NumLiteral(1, Loc(1, column + 10)), Loc(1, column)),
    Loc(1, column))

\* C26: once the walk has visited `matched = 1;` in a program that declares
\* no variable of that name, alone or in the body of an if, of a for...of or
\* of a switch case, the walk has failed with the undeclared-variable error
\* at the assignment: the name does not resolve to the switch's temporary.
C26_SwitchTemporariesArePrivate ==
  \A pos \in {1, 3, 5, 6} :
    visited = Position(pos, MatchedUse(PositionColumn(pos))) =>
      /\ pc = "error"
      /\ error = NotDeclared("matched", Loc(1, PositionColumn(pos)))

(***************************************************************************)
(* C27: the variable an expression statement discards its value to.        *)
(***************************************************************************)
\* The target name registerEnvGlobals gave the reserved discard name: that
\* of the declaration it makes after the caller's globals.
PreregisteredDiscard == decls[Len(env.globals) + 1].target

\* C27: once the walk has visited an expression statement that is not an
\* assignment, the #set it left assigns to the discard variable registered
\* before the walk, whatever the program has declared since.
C27_DiscardIsNeverCaptured ==
  ( /\ Walked("ExpressionStatement")
    /\ visited.expression.type # "AssignmentExpression" )
  => /\ lastChild.type = "SetDirectiveNode"
     /\ lastChild.reference.type = "VariableReferenceNode"
     /\ lastChild.reference.symbol.name = PreregisteredDiscard

(***************************************************************************)
(* C28: the grouping a rendered arithmetic expression reads with.          *)
(***************************************************************************)
RECURSIVE Arithmetic(_)
\* An expression of +, -, * and / over number literals.
Arithmetic(node) ==
  \/ node.type = "Literal"
  \/ /\ node.type = "BinaryExpression"
     /\ HasPrecedence(node.operator)
     /\ Arithmetic(node.left)
     /\ Arithmetic(node.right)

RECURSIVE GroupedTexts(_)
RECURSIVE OperandTexts(_, _, _)
\* The texts that read, with * and / binding tighter than + and - and every
\* operator grouping to the left, as the source expression node.
GroupedTexts(node) ==
  IF node.type = "Literal" THEN {ToString(node.num)}
  ELSE { left \o " " \o node.operator \o " " \o right :
           left \in OperandTexts(node, node.left, FALSE),
           right \in OperandTexts(node, node.right, TRUE) }

\* An operand needs its parentheses when it binds less tightly than its
\* parent, or as tightly and stands on the right; it may have them anyway.
OperandTexts(parent, operand, onRight) ==
  LET bare == GroupedTexts(operand)
      grouped == {"(" \o text \o ")" : text \in bare}
      needed == /\ operand.type = "BinaryExpression"
                /\ \/ Level(operand.operator) < Level(parent.operator)
                   \/ onRight /\ Level(operand.operator) = Level(parent.operator)
  IN IF needed THEN grouped ELSE bare \cup grouped

\* C28: once the walk has visited an expression of +, -, * and / over
\* numbers, the text of the expression left reads as the source expression:
\* each operand that is itself an operation is grouped as in the source.
C28_TextKeepsSourceGrouping ==
  (BinaryWalked /\ Arithmetic(visited.expression)) =>
    ToStr(lastChild.expression) \in GroupedTexts(visited.expression)

(***************************************************************************)
(* C29: assignments with a compound operator.                              *)
(***************************************************************************)
\* The top-level statement visited last is <name> <op>= <value>;
CompoundAssigned ==
  /\ pc \in {"walking", "error"}
  /\ visited.type = "ExpressionStatement"
  /\ visited.expression.type = "AssignmentExpression"
  /\ visited.expression.operator \in {"+=", "-="}

\* The operator a compound assignment operator combines with.
Combining(operator) == IF operator = "+=" THEN "+" ELSE "-"

\* C29: once the walk has visited a top-level assignment with a compound
\* operator, either the walk has failed, or the #set it left assigns an
\* operation of that operator on the variable and the value: it is not the
\* plain assignment of the value.
C29_CompoundOperatorIsKept ==
  CompoundAssigned =>
    \/ pc = "error"
    \/ /\ lastChild.type = "SetDirectiveNode"
       /\ lastChild.expression.type = "BinaryExpressionNode"
       /\ lastChild.expression.operator = Combining(visited.expression.operator)
       /\ ToStr(lastChild.expression.left) = ToStr(lastChild.reference)
       /\ lastChild.expression.right = Visit(visited.expression.right, St).lastChild

(***************************************************************************)
(* C30: the layout of the output.                                          *)
(***************************************************************************)
RECURSIVE Layout(_, _)
RECURSIVE LayoutAll(_, _)
LayoutAll(nodes, depth) ==
  IF Len(nodes) = 0 THEN ""
  ELSE Layout(nodes[1], depth) \o LayoutAll(Tail(nodes), depth)

\* The text of a statement under depth block directives when every line,
\* those of #if, #elseif, #else, #foreach and #end included, starts with two
\* spaces for each enclosing block directive and ends with the line ending.
Layout(node, depth) ==
  CASE node.type = "StatementListNode" -> LayoutAll(node.statements, depth)
    [] node.type = "IfDirectiveNode" ->
         indentation(depth) \o "#" \o (IF node.isElseIf THEN "elseif" ELSE "if")
           \o "( " \o ToStr(node.test) \o " )" \o EOL
           \o Layout(node.consequent, depth + 1)
           \o (IF node.alternate = Null THEN indentation(depth) \o "#end" \o EOL
               ELSE IF node.alternate.type = "IfDirectiveNode"
                 THEN Layout(node.alternate, depth)
               ELSE indentation(depth) \o "#else" \o EOL
                      \o Layout(node.alternate, depth + 1)
                      \o indentation(depth) \o "#end" \o EOL)
    [] node.type = "ForEachDirectiveNode" ->
         indentation(depth) \o "#foreach( " \o ToStr(node.iterator) \o " in "
           \o ToStr(node.iterable) \o " )" \o EOL
           \o Layout(node.body, depth + 1)
           \o indentation(depth) \o "#end" \o EOL
    [] OTHER -> indentation(depth) \o ToStr(node) \o EOL

\* C30: the output of a program that was transpiled is laid out with every
\* directive on a line of its own, each line indented by two spaces for each
\* block directive around it and ended by the line ending.
C30_EveryDirectiveOnItsOwnLine ==
  (pc = "done" /\ lastChild.type = "StatementListNode") =>
    output = Layout(lastChild, 0)

====
